---- MODULE Spec2Model ----
(***************************************************************************)
(* Model of the Weave AI Assistant VS Code extension.                      *)
(*                                                                         *)
(* Strings are sequences of characters.  Fixed template text that no       *)
(* operation inspects is carried as one element; everything an operation   *)
(* splits, truncates, replaces or scans is carried character by character. *)
(***************************************************************************)
EXTENDS Integers, Sequences, FiniteSets, TLC

VARIABLES
    impl,               \* which WeaveAssistant module is built: "mock" or "http"
    ctx,                \* WeaveCodeContext handed to the request composer
    composed,           \* last (operation, systemPrompt, userPrompt) composed
    document,           \* text of the document handed to the code-lens provider
    lensCancelled,      \* token.isCancellationRequested of the code-lens call
    lenses,             \* what provideCodeLenses returned
    hostConfig,         \* the host's weave.* settings
    hostHistory,        \* the values the host's weave.* settings have held, oldest first
    snapshot,           \* ConfigurationManager.config: <<>> before construction, else <<settings>>
    authorization,      \* the Authorization header httpClient was built with (<<>>: no client)
    foreignCommands,    \* command ids another extension has registered with the host
    extState,           \* "inactive", "activated" (activate has returned), "deactivated"
    activation,         \* "not-run", "ok", "failed": how the try block of activate ended
    activateThrew,      \* activate rejected towards the host
    isInitialized,      \* WeaveAssistant.isInitialized
    registeredCommands, \* command ids this extension has registered with the host
    providersRegistered,\* registerProviders has run
    listenersRegistered,\* registerEventListeners has run
    statusBarText,      \* StatusBarItem.text
    inlineHintsEnabled, \* CommandHandler.inlineHintsEnabled
    invs,               \* command invocations, in the order the host started them
    requests,           \* transport calls issued, in order
    panels,             \* webview panels created, each tagged with the invocation that created it
    messages,           \* user-facing messages shown, each tagged with the invocation that showed it
    clipboard,          \* clipboard text
    registrations,      \* provider registrations the host holds: (provider, language)
    documentEdits,      \* edits applied to editor documents, each tagged with its invocation
    activeEditor,       \* vscode.window.activeTextEditor as <<editor>>; <<>>: not tracked, any
                        \* editor may be active when a command starts
    completion,         \* the provideCompletionItems call: its arguments, position and result
    completionCancelled,\* token.isCancellationRequested of the completion call
    calls               \* calls made on the WeaveAssistant object directly, in order

mainVars == <<hostConfig, hostHistory, snapshot, authorization, foreignCommands, extState, activation, activateThrew,
              isInitialized, registeredCommands, providersRegistered,
              listenersRegistered, statusBarText, inlineHintsEnabled, invs,
              requests, panels, messages, clipboard, registrations, documentEdits,
              activeEditor>>

completionVars == <<completion, completionCancelled>>

vars == <<impl, ctx, composed, document, lensCancelled, lenses, mainVars, completionVars,
         calls>>

composeVars == <<impl, ctx, composed>>

composeNoImpl == <<ctx, composed>>

lensVars == <<document, lensCancelled, lenses>>

----------------------------------------------------------------------------
(* Bounds *)

MaxCodeLen == 4

MaxDocLen == 5

MaxInvocations == 2

MaxWordLen == 4

----------------------------------------------------------------------------
(* String helpers *)

NL == "\n"

\* the backquote character, written BQ
Tick == "BQ"

BackTicks == <<Tick, Tick, Tick>>

SeqsUpTo(S, n) == UNION {[1..k -> S] : k \in 0..n}

Min(a, b) == IF a < b THEN a ELSE b

\* s.substring(0, n)
Substring0(s, n) == SubSeq(s, 1, Min(n, Len(s)))

\* true iff needle occurs in hay as a contiguous run
Contains(hay, needle) ==
    \E i \in 0..(Len(hay) - Len(needle)) :
        SubSeq(hay, i + 1, i + Len(needle)) = needle

\* s.split('\n'): always at least one piece
RECURSIVE SplitNL(_)
SplitNL(s) ==
    IF \A i \in 1..Len(s) : s[i] # NL
    THEN <<s>>
    ELSE LET k == CHOOSE i \in 1..Len(s) :
                      s[i] = NL /\ \A j \in 1..(i - 1) : s[j] # NL
         IN  <<SubSeq(s, 1, k - 1)>> \o SplitNL(SubSeq(s, k + 1, Len(s)))

\* pieces.join('\n')
RECURSIVE JoinNL(_)
JoinNL(pieces) ==
    IF pieces = <<>> THEN <<>>
    ELSE IF Len(pieces) = 1 THEN pieces[1]
    ELSE pieces[1] \o <<NL>> \o JoinNL(Tail(pieces))

\* arr.slice(0, n)
Slice0(arr, n) == SubSeq(arr, 1, Min(n, Len(arr)))

----------------------------------------------------------------------------
(* Inputs *)

CodeAlphabet == {"a", "b", NL}

Codes == SeqsUpTo(CodeAlphabet, MaxCodeLen)

Languages == {<<"t", "s">>, <<"p", "y">>}

FileNames == {"f.ts"}

Impls == {"mock", "http"}

NumLines(code) == Len(SplitNL(code))

Contexts ==
    UNION {[code : {c}, language : Languages, fileName : FileNames,
            line : 0..(NumLines(c) - 1), column : {0}] : c \in Codes}

----------------------------------------------------------------------------
(* Request composer: WeaveAssistant.generatePrompt / analyzeCode /         *)
(* suggestOptimization / generateCompletion, up to the callWeaveAPI call   *)

GeneratePromptSystem ==
    <<"You are an expert at creating optimized prompts for AI models.", NL,
      "Analyze the provided code and generate a clear, concise prompt that describes its purpose and functionality.">>

GeneratePromptUser(context) ==
    <<"Analyze this ">> \o context.language
    \o <<" code and generate an optimized prompt that describes it:", NL, NL>>
    \o BackTicks \o context.language \o <<NL>>
    \o context.code \o <<NL>>
    \o BackTicks \o <<NL, NL, "Generate a prompt that: 1. 2. 3. 4.">>

AnalyzeCodeSystem ==
    <<"You are a senior software engineer. Provide insightful analysis of code quality,", NL,
      "potential issues, and improvements.">>

AnalyzeCodeUserUntagged(context) ==
    <<"Analyze this ">> \o context.language \o <<" code:", NL, NL>>
    \o BackTicks \o <<NL>>
    \o context.code \o <<NL>>
    \o BackTicks \o <<NL, NL, "Provide analysis including: 1. 2. 3. 4. 5.">>

AnalyzeCodeUser(context) ==
    <<"Analyze this ">> \o context.language \o <<" code:", NL, NL>>
    \o BackTicks \o context.language \o <<NL>>
    \o context.code \o <<NL>>
    \o BackTicks \o <<NL, NL, "Provide analysis including: 1. 2. 3. 4. 5.">>

SuggestOptimizationSystem ==
    <<"You are an expert at optimizing code. Provide specific, actionable optimization suggestions", NL,
      "with example improvements where appropriate.">>

SuggestOptimizationUser(context) ==
    <<"Suggest optimizations for this ">> \o context.language \o <<" code:", NL, NL>>
    \o BackTicks \o context.language \o <<NL>>
    \o context.code \o <<NL>>
    \o BackTicks \o <<NL, NL, "For each suggestion: 1. 2. 3. 4.">>

GenerateCompletionSystem ==
    <<"You are a code completion expert. Complete the code based on context.", NL,
      "Respond with only the completion text, no explanations.">>

CursorMarker == <<"|CURSOR_HERE|">>

PreviousLinesWhole(code, line) == code

\* lines = context.code.split('\n'); lines.slice(0, position.line).join('\n')
PreviousLines(code, line) == JoinNL(Slice0(SplitNL(code), line))

GenerateCompletionUser(context, line) ==
    <<"Complete this ">> \o context.language \o <<" code based on context:", NL, NL>>
    \o BackTicks \o context.language \o <<NL>>
    \o PreviousLines(context.code, line) \o <<NL>>
    \o CursorMarker \o <<NL>>
    \o BackTicks
    \o <<NL, NL, "Provide a natural completion that fits the code style and logic.">>

GenerateDocumentationSystem ==
    <<"You are a documentation expert. Generate clear, concise documentation for code.">>

GenerateDocumentationUser(context) ==
    <<"Generate JSDoc/documentation for this ">> \o context.language \o <<" code:", NL, NL>>
    \o BackTicks \o context.language \o <<NL>>
    \o context.code \o <<NL>>
    \o BackTicks
    \o <<NL, NL, "Include description, parameters, return type, and examples where relevant.">>

Operations == {"generate-prompt", "analyze", "suggest-optimization", "complete"}

\* the operations of WeaveAssistant that end in callWeaveAPI
AssistantOperations == Operations \cup {"generate-documentation"}

SystemPromptOf(op) ==
    CASE op = "generate-prompt" -> GeneratePromptSystem
      [] op = "analyze" -> AnalyzeCodeSystem
      [] op = "suggest-optimization" -> SuggestOptimizationSystem
      [] op = "complete" -> GenerateCompletionSystem
      [] op = "generate-documentation" -> GenerateDocumentationSystem

\* the provider passes position.line both as context.line and as position
UserPromptOf(op, context) ==
    CASE op = "generate-prompt" -> GeneratePromptUser(context)
      [] op = "analyze" -> AnalyzeCodeUser(context)
      [] op = "suggest-optimization" -> SuggestOptimizationUser(context)
      [] op = "complete" -> GenerateCompletionUser(context, context.line)
      [] op = "generate-documentation" -> GenerateDocumentationUser(context)

\* the type callWeaveAPI is given by each operation
ResultTypeOf(op) ==
    CASE op = "generate-prompt" -> "analysis"
      [] op = "analyze" -> "analysis"
      [] op = "suggest-optimization" -> "suggestion"
      [] op = "complete" -> "completion"
      [] op = "generate-documentation" -> "analysis"

NoContext == [code |-> <<>>, language |-> <<>>, fileName |-> "", line |-> 0, column |-> 0]

NotComposed == [op |-> "none", systemPrompt |-> <<>>, userPrompt |-> <<>>]

----------------------------------------------------------------------------
(* Host configuration and extension state *)

Providers == {"openai", "anthropic", "local"}

ApiKeys == {<<>>, <<"k">>}

\* model, temperature and maxTokens as the user sets them together: the
\* defaults ('gpt-4', 0.7, 1000) and one other choice
Profiles ==
    {[model |-> "gpt-4", temperature |-> "0.7", maxTokens |-> 1000],
     [model |-> "gpt-3.5-turbo", temperature |-> "0.2", maxTokens |-> 500]}

DefaultProfile == [model |-> "gpt-4", temperature |-> "0.7", maxTokens |-> 1000]

\* languageScope: ['typescript', 'javascript', 'python'] unless the user sets it
DefaultScope == {"typescript", "javascript", "python"}

\* the default, and a scope that drops two languages and adds one
LanguageScopes == {DefaultScope, {"typescript", "go"}}

\* the weave.* settings; inlineHints, enableCodeCompletion, enableCodeLens and
\* languageScope at their defaults
Settings(apiKey, provider, profile) ==
    [apiKey |-> apiKey, provider |-> provider, model |-> profile.model,
     temperature |-> profile.temperature, maxTokens |-> profile.maxTokens,
     inlineHints |-> TRUE, enableCodeCompletion |-> TRUE, enableCodeLens |-> TRUE,
     languageScope |-> DefaultScope]

\* the values the host's weave.* settings can take
HostConfigs ==
    {[Settings(k, p, q) EXCEPT !.languageScope = s] :
        k \in ApiKeys, p \in Providers, q \in Profiles, s \in LanguageScopes}

\* registerProviders: one registration per language of languageScope, for
\* each provider that is enabled
RegisterProviders(config) ==
    {[provider |-> "completion", language |-> l] :
        l \in IF config.enableCodeCompletion THEN config.languageScope ELSE {}}
    \cup {[provider |-> "codeLens", language |-> l] :
        l \in IF config.enableCodeLens THEN config.languageScope ELSE {}}

\* the settings the host holds when the extension starts: any key and
\* provider, the other settings at their defaults
StartupConfigs == {Settings(k, p, DefaultProfile) : k \in ApiKeys, p \in Providers}

\* the defaults of ConfigurationManager: apiKey '', provider 'openai', ...
DefaultConfig == Settings(<<>>, "openai", DefaultProfile)

\* this.config = vscode.workspace.getConfiguration('weave')
ReloadMerged(current, store) ==
    IF current = <<>> THEN <<store>>
    ELSE <<[store EXCEPT !.model = current[1].model]>>

\* this.config = vscode.workspace.getConfiguration('weave'): the object the
\* host returns holds the settings as they are at the call
Reload(current, store) == <<store>>

\* Authorization: `Bearer ${config.getApiKey()}`
Bearer(apiKey) == <<"Bearer ">> \o apiKey

\* new HTTPClient({ headers: { Authorization } }) in the constructor of the
\* HTTP variant; the mock variant builds no client
AuthorizationBuilt(variant, config) ==
    IF variant = "http" THEN Bearer(config[1].apiKey) ELSE <<>>

\* the ids in the order registerCommands registers them
CommandOrder ==
    <<"weave.generatePrompt", "weave.analyzeCode", "weave.suggestOptimization",
      "weave.showDocumentation", "weave.insertWeaveTemplate", "weave.toggleInlineHints">>

CommandIds == {CommandOrder[k] : k \in 1..Len(CommandOrder)}

\* ids the host may already hold for another extension when activate runs
\* (vscode.commands.registerCommand throws on an id that is already registered)
ForeignCommandSets == {{}, {"weave.showDocumentation"}}

NoCompletion ==
    [pc |-> "not-called", word |-> <<>>, triggerKind |-> "Invoke",
     triggerCharacter |-> "undefined", context |-> NoContext,
     transport |-> "none", content |-> <<>>, result |-> "none"]

CompletionIdle ==
    /\ completion = NoCompletion
    /\ completionCancelled = FALSE

AssistantIdle == calls = <<>>

\* activate has not run: nothing registered, shown or invoked
ExtensionIdle ==
    /\ foreignCommands = {}
    /\ extState = "inactive"
    /\ activation = "not-run"
    /\ activateThrew = FALSE
    /\ registeredCommands = {}
    /\ providersRegistered = FALSE
    /\ listenersRegistered = FALSE
    /\ statusBarText = "none"
    /\ inlineHintsEnabled = TRUE
    /\ invs = <<>>
    /\ panels = {}
    /\ messages = {}
    /\ clipboard = <<>>
    /\ registrations = {}
    /\ documentEdits = {}
    /\ activeEditor = <<>>

MainIdle ==
    /\ hostConfig = DefaultConfig
    /\ hostHistory = <<DefaultConfig>>
    /\ snapshot = <<>>
    /\ authorization = <<>>
    /\ isInitialized = FALSE
    /\ requests = <<>>
    /\ ExtensionIdle

----------------------------------------------------------------------------
(* Transport: WeaveAssistant.callWeaveAPI, mock and HTTP variants *)

MockPrefix == <<
    "[", "M", "o", "c", "k", " ">>

MockSuffix == <<
    "]", " ", "T", "h", "i", "s", " ", "i", "s", " ", "a", " ", "p", "l", "a", "c",
    "e", "h", "o", "l", "d", "e", "r", " ", "r", "e", "s", "p", "o", "n", "s", "e",
    ".", " ", "I", "n", " ", "p", "r", "o", "d", "u", "c", "t", "i", "o", "n", ",",
    " ", "t", "h", "i", "s", " ", "w", "o", "u", "l", "d", " ", "b", "e", " ", "g",
    "e", "n", "e", "r", "a", "t", "e", "d", " ", "b", "y", " ", "t", "h", "e", " ",
    "W", "e", "a", "v", "e", " ", "f", "r", "a", "m", "e", "w", "o", "r", "k", ".">>

TypeChars(type) ==
    CASE type = "analysis" -> <<
          "a", "n", "a", "l", "y", "s", "i", "s">>
      [] type = "suggestion" -> <<
          "s", "u", "g", "g", "e", "s", "t", "i", "o", "n">>
      [] type = "completion" -> <<
          "c", "o", "m", "p", "l", "e", "t", "i", "o", "n">>

\* `[Mock ${type}] This is a placeholder response. ...`
MockContent(type) == MockPrefix \o TypeChars(type) \o MockSuffix

\* response.data of a resolved httpClient.post: no data at all, an object
\* without a content field, or an object with a string content
ResponseData ==
    {[defined |-> FALSE, hasContent |-> FALSE, content |-> <<>>],
     [defined |-> TRUE, hasContent |-> FALSE, content |-> <<>>],
     [defined |-> TRUE, hasContent |-> TRUE, content |-> <<>>],
     [defined |-> TRUE, hasContent |-> TRUE, content |-> <<"l", NL, "m", NL, "n">>]}

\* (data.content as string) || ''
ContentOf(data) == IF data.hasContent THEN data.content ELSE <<>>

\* the content of the results the HTTP variant returns
HttpContents == {ContentOf(data) : data \in {d \in ResponseData : d.defined}}

\* what the transport promise can resolve to
ResolvedContents(variant, type) ==
    IF variant = "mock" THEN {MockContent(type)} ELSE HttpContents

\* what httpClient.post can reject with: an Error with a message, or a value
\* that is no Error (a thrown string)
TransportErrors ==
    {[isError |-> TRUE, reason |-> "Request failed with status 500"],
     [isError |-> FALSE, reason |-> "ECONNRESET"]}

\* the mock's withProgress/setTimeout body has no failing call
CanReject(variant) == variant = "http"

NotInitializedError == [isError |-> TRUE, reason |-> "WeaveAssistant not initialized"]

EnsureInitializedNever(initialized) == FALSE

\* ensureInitialized: if (!this.isInitialized) throw new Error(...)
EnsureInitializedThrows(initialized) == ~initialized

\* data.tokensUsed read from a response without data
NoDataError ==
    [isError |-> TRUE, reason |-> "Cannot read properties of undefined (reading 'tokensUsed')"]

\* error instanceof Error ? error.message : 'Unknown error'
ErrorText(error) == IF error.isError THEN error.reason ELSE "Unknown error"

\* provider, model, temperature and maxTokens of the request body, each read
\* from this.config by its getter while the body is built
RequestSettings(config) ==
    [provider |-> config.provider, model |-> config.model,
     temperature |-> config.temperature, maxTokens |-> config.maxTokens]

NoSettings == [provider |-> "", model |-> "", temperature |-> "", maxTokens |-> 0]

\* codeContext of the request body
CodeContextOf(context) ==
    [language |-> context.language, fileName |-> context.fileName,
     line |-> context.line, column |-> context.column]

\* the one transport call of callWeaveAPI, made for call or invocation inv.  The
\* HTTP variant posts the prompts, the settings and the code context with the
\* headers its client was built with; the mock variant waits and sends nothing.
Request(variant, inv, op, context, config, auth) ==
    [inv |-> inv,
     type |-> ResultTypeOf(op),
     systemPrompt |-> SystemPromptOf(op),
     userPrompt |-> UserPromptOf(op, context),
     settings |-> IF variant = "http" THEN RequestSettings(config[1]) ELSE NoSettings,
     codeContext |-> CodeContextOf(context),
     authorization |-> IF variant = "http" THEN auth ELSE <<>>]

PostDeduplicated(sent, request) ==
    IF \E k \in 1..Len(sent) : sent[k].userPrompt = request.userPrompt
    THEN sent
    ELSE Append(sent, request)

PostRewriting(sent, request) ==
    Append([k \in 1..Len(sent) |->
               [sent[k] EXCEPT !.codeContext = request.codeContext,
                               !.userPrompt = request.userPrompt]],
           request)

PostTwice(sent, request) == Append(Append(sent, request), request)

\* await this.httpClient.post(...) / await withProgress(...): one call
Post(sent, request) == Append(sent, request)

----------------------------------------------------------------------------
(* Specification of the request composer alone: any context, any operation *)

LensIdle ==
    /\ document = <<>>
    /\ lensCancelled = FALSE
    /\ lenses = "not-called"

InitCompose ==
    /\ impl \in Impls
    /\ ctx \in Contexts
    /\ composed = NotComposed
    /\ LensIdle
    /\ MainIdle
    /\ CompletionIdle
    /\ AssistantIdle

Compose(op) ==
    /\ composed' = [op |-> op,
                    systemPrompt |-> SystemPromptOf(op),
                    userPrompt |-> UserPromptOf(op, ctx)]
    /\ UNCHANGED <<impl, ctx>>
    /\ UNCHANGED lensVars
    /\ UNCHANGED mainVars
    /\ UNCHANGED completionVars
    /\ UNCHANGED calls

ComposeGeneratePrompt == Compose("generate-prompt")

ComposeAnalyze == Compose("analyze")

ComposeSuggestOptimization == Compose("suggest-optimization")

ComposeComplete == Compose("complete")

NextCompose ==
    \/ ComposeGeneratePrompt
    \/ ComposeAnalyze
    \/ ComposeSuggestOptimization
    \/ ComposeComplete

SpecCompose == InitCompose /\ [][NextCompose]_vars

----------------------------------------------------------------------------
(* Code-lens provider: CodeLensProvider.provideCodeLenses                  *)
(*                                                                         *)
(* The document is a sequence of elements: the keywords async, function    *)
(* and class (each one element, made of word characters), a space, a       *)
(* newline and a word character.                                           *)

LensAlphabet == {"async", "function", "class", " ", NL, "x"}

LensDocs == SeqsUpTo(LensAlphabet, MaxDocLen)

\* \s
IsSpace(c) == c \in {" ", NL}

\* \w (a keyword is a run of word characters)
IsWord(c) == c \in {"async", "function", "class", "x"}

\* first position >= p of d that holds no space (Len(d) + 1 when there is none)
RECURSIVE SkipSpaces(_, _)
SkipSpaces(d, p) ==
    IF p <= Len(d) /\ IsSpace(d[p]) THEN SkipSpaces(d, p + 1) ELSE p

\* first position >= p of d that holds no word character
RECURSIVE SkipWords(_, _)
SkipWords(d, p) ==
    IF p <= Len(d) /\ IsWord(d[p]) THEN SkipWords(d, p + 1) ELSE p

\* (function|class)\s+(\w+) tried at position p: the position after the match, 0 for no match
KeywordNameEnd(d, p) ==
    IF p <= Len(d) /\ d[p] \in {"function", "class"}
       /\ SkipSpaces(d, p + 1) > p + 1
       /\ SkipWords(d, SkipSpaces(d, p + 1)) > SkipSpaces(d, p + 1)
    THEN SkipWords(d, SkipSpaces(d, p + 1))
    ELSE 0

LineStartNoMultiline(d, i) == i = 1

\* ^ under the m flag: the start of the text or the position after a newline
LineStart(d, i) == i = 1 \/ d[i - 1] = NL

\* /^(async\s+)?(function|class)\s+(\w+)/m tried at position i: the position
\* after the match, 0 for no match.  The optional group is tried first and
\* given up when the rest does not match.
MatchEndAt(d, i) ==
    IF ~LineStart(d, i) THEN 0
    ELSE IF d[i] = "async" /\ SkipSpaces(d, i + 1) > i + 1
            /\ KeywordNameEnd(d, SkipSpaces(d, i + 1)) > 0
         THEN KeywordNameEnd(d, SkipSpaces(d, i + 1))
         ELSE KeywordNameEnd(d, i)

\* functionPattern.exec(text) with lastIndex = from - 1: the first match at or
\* after position from, as <<index, end>>, or <<>> for null
RECURSIVE Exec(_, _)
Exec(d, from) ==
    IF from > Len(d) THEN <<>>
    ELSE IF MatchEndAt(d, from) > 0 THEN <<from, MatchEndAt(d, from)>>
    ELSE Exec(d, from + 1)

\* document.positionAt(offset), offset = index - 1
PositionAt(d, index) ==
    LET nls == {j \in 1..(index - 1) : d[j] = NL}
        lastNl == IF nls = {} THEN 0 ELSE CHOOSE j \in nls : \A k \in nls : k <= j
    IN  [line |-> Cardinality(nls), character |-> index - 1 - lastNl]

AnalyzeLens ==
    [range |-> [start |-> [line |-> 0, character |-> 0],
                end |-> [line |-> 0, character |-> 0]],
     title |-> "$(lightbulb) Weave: Analyze",
     command |-> "weave.analyzeCode"]

OptimizeLens(position) ==
    [range |-> [start |-> position,
                end |-> [line |-> position.line, character |-> position.character + 5]],
     title |-> "$(wand) Weave: Optimize",
     command |-> "weave.suggestOptimization"]

\* the while loop over functionPattern.exec, from lastIndex = from - 1
RECURSIVE OptimizeLenses(_, _)
OptimizeLenses(d, from) ==
    LET match == Exec(d, from)
    IN  IF match = <<>> THEN <<>>
        ELSE <<OptimizeLens(PositionAt(d, match[1]))>> \o OptimizeLenses(d, match[2])

Null == "null"

ProvideCodeLensesResult(d, cancelled) ==
    IF cancelled THEN Null
    ELSE <<AnalyzeLens>> \o OptimizeLenses(d, 1)

ComposeIdle ==
    /\ impl = "mock"
    /\ ctx = NoContext
    /\ composed = NotComposed

InitLens ==
    /\ document \in LensDocs
    /\ lensCancelled \in BOOLEAN
    /\ lenses = "not-called"
    /\ ComposeIdle
    /\ MainIdle
    /\ CompletionIdle
    /\ AssistantIdle

ProvideCodeLenses ==
    /\ lenses = "not-called"
    /\ lenses' = ProvideCodeLensesResult(document, lensCancelled)
    /\ UNCHANGED <<document, lensCancelled>>
    /\ UNCHANGED composeVars
    /\ UNCHANGED mainVars
    /\ UNCHANGED completionVars
    /\ UNCHANGED calls

\* the host hands the provider the document again after an edit
EditDocument ==
    /\ lenses # "not-called"
    /\ \E c \in LensAlphabet :
           /\ Len(document) < MaxDocLen
           /\ document' = Append(document, c)
    /\ lensCancelled' \in BOOLEAN
    /\ lenses' = "not-called"
    /\ UNCHANGED composeVars
    /\ UNCHANGED mainVars
    /\ UNCHANGED completionVars
    /\ UNCHANGED calls

NextLens ==
    \/ ProvideCodeLenses
    \/ EditDocument

SpecLens == InitLens /\ [][NextLens]_vars

----------------------------------------------------------------------------
(* Activation: activate, registerCommands, WeaveAssistant.initialize,      *)
(* deactivate                                                              *)

InitializeThrowsWithoutKey(config) == config.apiKey = <<>>

\* if (!apiKey && provider !== 'local') throw new Error(...)
InitializeThrows(config) == config.apiKey = <<>> /\ config.provider # "local"

\* registerCommands: the registerCommand calls are evaluated in order as the
\* arguments of one push; the first id the host already holds throws
RegisterCommandsThrows(foreign) == foreign \cap CommandIds # {}

CommandsRegisteredButLast(foreign) ==
    {CommandOrder[k] : k \in {n \in 1..(Len(CommandOrder) - 1) :
                                 \A j \in 1..n : CommandOrder[j] \notin foreign}}

\* the ids registered with the host when registerCommands returns or throws
CommandsRegisteredBy(foreign) ==
    {CommandOrder[k] : k \in {n \in 1..Len(CommandOrder) :
                                 \A j \in 1..n : CommandOrder[j] \notin foreign}}

InitFailedText == <<"Failed to initialize Weave AI Assistant">>

\* showErrorMessage / showInformationMessage: the n-th message shown by
\* invocation inv (0: by activate)
Shown(msgs, inv, kind, text) ==
    msgs \cup {[inv |-> inv, n |-> Cardinality({m \in msgs : m.inv = inv}) + 1,
                kind |-> kind, text |-> text]}

ActivateEndsUncaught(failed) ==
    [threw |-> failed, errorsShown |-> <<>>]

\* try { ... } catch (error) { logError(...); showErrorMessage(...) }
ActivateEnds(failed) ==
    [threw |-> FALSE,
     errorsShown |-> IF failed THEN <<InitFailedText>> ELSE <<>>]

StatusAlwaysReady(failed) == "$(check) Weave Ready"

\* new StatusBarManager() calls setLoading(); statusBarManager.setReady() is the
\* last statement of the try block
StatusAfterActivate(failed) ==
    IF failed THEN "$(loading~spin) Weave Loading..." ELSE "$(check) Weave Ready"

Activate ==
    /\ extState = "inactive"
    /\ snapshot' = Reload(snapshot, hostConfig)
    /\ authorization' = AuthorizationBuilt(impl, snapshot')
    /\ LET initFails == InitializeThrows(snapshot'[1])
           cmdFails == ~initFails /\ RegisterCommandsThrows(foreignCommands)
           failed == initFails \/ cmdFails
           end == ActivateEnds(failed)
       IN  /\ statusBarText' = StatusAfterActivate(failed)
           /\ isInitialized' = ~initFails
           /\ registeredCommands' =
                  IF initFails THEN {} ELSE CommandsRegisteredBy(foreignCommands)
           /\ providersRegistered' = ~failed
           /\ registrations' = IF failed THEN {} ELSE RegisterProviders(hostConfig)
           /\ listenersRegistered' = ~failed
           /\ activation' = IF failed THEN "failed" ELSE "ok"
           /\ activateThrew' = end.threw
           /\ messages' = IF end.errorsShown = <<>> THEN messages
                           ELSE Shown(messages, 0, "error", end.errorsShown[1])
           /\ extState' = "activated"
    /\ UNCHANGED <<hostConfig, hostHistory, foreignCommands, inlineHintsEnabled, invs,
                   requests, panels, clipboard, documentEdits, activeEditor>>
    /\ UNCHANGED <<impl, composeNoImpl, lensVars, completionVars, calls>>

DeactivateAborting ==
    /\ extState = "activated"
    /\ extState' = "deactivated"
    /\ isInitialized' = FALSE
    /\ statusBarText' = "disposed"
    /\ registeredCommands' = IF activation = "ok" THEN {} ELSE registeredCommands
    /\ providersRegistered' = FALSE
    /\ registrations' = {}
    /\ listenersRegistered' = FALSE
    /\ invs' = [i \in 1..Len(invs) |->
                   IF invs[i].pc = "done" THEN invs[i] ELSE [invs[i] EXCEPT !.pc = "done"]]
    /\ UNCHANGED <<hostConfig, hostHistory, snapshot, authorization, foreignCommands,
                   activation, activateThrew, inlineHintsEnabled, requests,
                   panels, messages, clipboard, documentEdits, activeEditor>>
    /\ UNCHANGED <<impl, composeNoImpl, lensVars, completionVars, calls>>

\* deactivate, then the host disposes context.subscriptions; ids registered by
\* a registerCommands call that threw were never pushed and stay registered
Deactivate ==
    /\ extState = "activated"
    /\ extState' = "deactivated"
    /\ isInitialized' = FALSE
    /\ statusBarText' = "disposed"
    /\ registeredCommands' = IF activation = "ok" THEN {} ELSE registeredCommands
    /\ providersRegistered' = FALSE
    /\ registrations' = {}
    /\ listenersRegistered' = FALSE
    /\ UNCHANGED <<hostConfig, hostHistory, snapshot, authorization, foreignCommands,
                   activation, activateThrew, inlineHintsEnabled, invs, requests,
                   panels, messages, clipboard, documentEdits, activeEditor>>
    /\ UNCHANGED <<impl, composeNoImpl, lensVars, completionVars, calls>>

----------------------------------------------------------------------------
(* Command handler: CommandHandler.generatePrompt, analyzeCode,            *)
(* suggestOptimization, toggleInlineHints, showResult, getWebviewContent   *)

PromptCommands == {"weave.generatePrompt", "weave.analyzeCode", "weave.suggestOptimization"}

OperationOf(cmd) ==
    CASE cmd = "weave.generatePrompt" -> "generate-prompt"
      [] cmd = "weave.analyzeCode" -> "analyze"
      [] cmd = "weave.suggestOptimization" -> "suggest-optimization"

NoEditorText == <<"No active editor">>

SelectCodeText(cmd) ==
    CASE cmd = "weave.generatePrompt" -> <<"Please select code to generate a prompt for">>
      [] cmd = "weave.analyzeCode" -> <<"Please select code to analyze">>
      [] cmd = "weave.suggestOptimization" -> <<"Please select code to optimize">>

FailedPrefix(cmd) ==
    CASE cmd = "weave.generatePrompt" -> "Failed to generate prompt: "
      [] cmd = "weave.analyzeCode" -> "Failed to analyze code: "
      [] cmd = "weave.suggestOptimization" -> "Failed to get suggestions: "

\* `Failed to ...: ${error instanceof Error ? error.message : 'Unknown error'}`
FailedText(cmd, error) == <<FailedPrefix(cmd), ErrorText(error)>>

PanelTitle(cmd) ==
    CASE cmd = "weave.generatePrompt" -> "Weave: Generated Prompt"
      [] cmd = "weave.analyzeCode" -> "Weave: Code Analysis"
      [] cmd = "weave.suggestOptimization" -> "Weave: Optimization Suggestions"

LineBreak == <<"<", "b", "r", ">">>

ReplaceFirstNewline(content) ==
    IF \A i \in 1..Len(content) : content[i] # NL THEN content
    ELSE LET k == CHOOSE i \in 1..Len(content) :
                      content[i] = NL /\ \A j \in 1..(i - 1) : content[j] # NL
         IN  SubSeq(content, 1, k - 1) \o LineBreak \o SubSeq(content, k + 1, Len(content))

\* content.replace(/\n/g, '<br>')
RECURSIVE ReplaceNewlines(_)
ReplaceNewlines(content) ==
    IF \A i \in 1..Len(content) : content[i] # NL THEN content
    ELSE LET k == CHOOSE i \in 1..Len(content) :
                      content[i] = NL /\ \A j \in 1..(i - 1) : content[j] # NL
         IN  SubSeq(content, 1, k - 1) \o LineBreak
             \o ReplaceNewlines(SubSeq(content, k + 1, Len(content)))

GetWebviewContent(title, content) ==
    <<"<!DOCTYPE html><html lang=en><head><meta><meta><title>", title,
      "</title><style>...</style></head><body><h1>", title,
      "</h1><div id=content>">>
    \o ReplaceNewlines(content)
    \o <<"</div>",
         "<button class=copy-button onclick=copyToClipboard()>Copy to Clipboard</button>",
         "<script>function copyToClipboard() {...}</script></body></html>">>

\* showResult: createWebviewPanel(..., ViewColumn.Beside, {}) and set its html
ShowResultReusingPanel(open, inv, title, content) ==
    IF open = {}
    THEN {[inv |-> inv, n |-> 1, title |-> title, column |-> "Beside",
           html |-> GetWebviewContent(title, content)]}
    ELSE LET old == CHOOSE q \in open : TRUE
         IN  (open \ {old}) \cup {[old EXCEPT !.title = title,
                                                !.html = GetWebviewContent(title, content)]}

\* showResult: createWebviewPanel(..., ViewColumn.Beside, {}) and set its html;
\* the panel is the n-th one invocation inv created
ShowResult(open, inv, title, content) ==
    open \cup {[inv |-> inv, n |-> Cardinality({q \in open : q.inv = inv}) + 1,
                title |-> title, column |-> "Beside",
                html |-> GetWebviewContent(title, content)]}

\* what the host has in vscode.window.activeTextEditor when a command starts
Selections == {<<>>, <<"a", NL, "b">>}

MainLanguages == {<<"t", "s">>}

NoEditor == [present |-> FALSE, selection |-> <<>>, language |-> <<>>]

Editors ==
    {NoEditor} \cup [present : {TRUE}, selection : Selections, language : MainLanguages]

\* const editor = vscode.window.activeTextEditor
ActiveEditors(any) == IF activeEditor = <<>> THEN any ELSE {activeEditor[1]}

EditorMissingNever(editor) == FALSE

\* if (!editor)
EditorMissing(editor) == ~editor.present

SelectionIsEmptyNever(selection) == FALSE

\* selection.isEmpty
SelectionIsEmpty(selection) == selection = <<>>

ContextOf(editor) ==
    [code |-> editor.selection, language |-> editor.language,
     fileName |-> "f.ts", line |-> 0, column |-> 0]

NoError == [isError |-> FALSE, reason |-> ""]

Invocation(cmd, editor, pc, transport) ==
    [cmd |-> cmd, editor |-> editor, pc |-> pc, transport |-> transport,
     content |-> <<>>, error |-> NoError]

NoData == [defined |-> FALSE, hasContent |-> FALSE, content |-> <<>>]

\* a call of op made while isInitialized was initialized; post is how the
\* transport call ended, data the response data, content what the call returned
Call(op, initialized, pc) ==
    [op |-> op, initialized |-> initialized, pc |-> pc, error |-> NoError,
     post |-> "none", data |-> NoData, type |-> "none", content |-> <<>>]

otherVars == <<hostConfig, hostHistory, snapshot, authorization, calls,
               foreignCommands, extState, activation, activateThrew,
               isInitialized, registeredCommands, providersRegistered,
               listenersRegistered, registrations, impl, composeNoImpl, lensVars,
               completionVars>>

\* generatePrompt / analyzeCode / suggestOptimization up to the first await
StartPromptCommand(cmd) ==
    /\ cmd \in registeredCommands
    /\ Len(invs) < MaxInvocations
    /\ \E editor \in ActiveEditors(Editors) :
        LET i == Len(invs) + 1
        IN  IF EditorMissing(editor) THEN
                /\ invs' = Append(invs, Invocation(cmd, editor, "done", "none"))
                /\ messages' = Shown(messages, i, "error", NoEditorText)
                /\ UNCHANGED requests
            ELSE IF SelectionIsEmpty(editor.selection) THEN
                /\ invs' = Append(invs, Invocation(cmd, editor, "done", "none"))
                /\ messages' = Shown(messages, i, "error", SelectCodeText(cmd))
                /\ UNCHANGED requests
            ELSE IF EnsureInitializedThrows(isInitialized) THEN
                \* ensureInitialized throws inside the try block
                /\ invs' = Append(invs, [Invocation(cmd, editor, "done", "none")
                                            EXCEPT !.error = NotInitializedError])
                /\ messages' = Shown(messages, i, "error", FailedText(cmd, NotInitializedError))
                /\ UNCHANGED requests
            ELSE
                /\ invs' = Append(invs, Invocation(cmd, editor, "awaiting-transport", "pending"))
                /\ requests' = Post(requests,
                       Request(impl, i, OperationOf(cmd), ContextOf(editor),
                               snapshot, authorization))
                /\ UNCHANGED messages
    /\ UNCHANGED <<panels, clipboard, inlineHintsEnabled, statusBarText, documentEdits,
                   activeEditor>>
    /\ UNCHANGED otherVars

GeneratePrompt == StartPromptCommand("weave.generatePrompt")

AnalyzeCode == StartPromptCommand("weave.analyzeCode")

SuggestOptimization == StartPromptCommand("weave.suggestOptimization")

\* the awaited assistant call resolves: showResult, and for generatePrompt the
\* 'Prompt generated successfully' message with its two actions
TransportResolves ==
    \E i \in 1..Len(invs) :
        /\ invs[i].pc = "awaiting-transport"
        /\ \E content \in ResolvedContents(impl, ResultTypeOf(OperationOf(invs[i].cmd))) :
            /\ panels' = ShowResult(panels, i, PanelTitle(invs[i].cmd), content)
            /\ IF invs[i].cmd = "weave.generatePrompt"
               THEN /\ invs' = [invs EXCEPT ![i].pc = "awaiting-action",
                                            ![i].transport = "ok",
                                            ![i].content = content]
                    /\ messages' = Shown(messages, i, "info", <<"Prompt generated successfully">>)
               ELSE /\ invs' = [invs EXCEPT ![i].pc = "done",
                                            ![i].transport = "ok",
                                            ![i].content = content]
                    /\ UNCHANGED messages
        /\ UNCHANGED <<requests, clipboard, inlineHintsEnabled, statusBarText,
                       documentEdits, activeEditor>>
        /\ UNCHANGED otherVars

\* the awaited assistant call rejects: the catch block of the command
TransportRejects ==
    \E i \in 1..Len(invs) :
        /\ invs[i].pc = "awaiting-transport"
        /\ CanReject(impl)
        /\ \E error \in TransportErrors :
            /\ invs' = [invs EXCEPT ![i].pc = "done",
                                    ![i].transport = "failed",
                                    ![i].error = error]
            /\ messages' = Shown(messages, i, "error", FailedText(invs[i].cmd, error))
        /\ UNCHANGED <<requests, panels, clipboard, inlineHintsEnabled, statusBarText,
                       documentEdits, activeEditor>>
        /\ UNCHANGED otherVars

ClipboardError == [isError |-> TRUE, reason |-> "clipboard unavailable"]

\* generatePrompt after showInformationMessage resolves
PromptActionChosen ==
    \E i \in 1..Len(invs) :
        /\ invs[i].pc = "awaiting-action"
        /\ \E action \in {"Copy to Clipboard", "Open in Panel", "undefined"} :
            IF action = "Copy to Clipboard"
            THEN \E written \in BOOLEAN :
                    IF written
                    THEN /\ clipboard' = invs[i].content
                         /\ messages' = Shown(messages, i, "info", <<"Prompt copied to clipboard">>)
                         /\ invs' = [invs EXCEPT ![i].pc = "done"]
                    ELSE /\ messages' = Shown(messages, i, "error", FailedText(invs[i].cmd, ClipboardError))
                         /\ invs' = [invs EXCEPT ![i].pc = "done",
                                                 ![i].error = ClipboardError]
                         /\ UNCHANGED clipboard
            ELSE /\ invs' = [invs EXCEPT ![i].pc = "done"]
                 /\ UNCHANGED <<messages, clipboard>>
        /\ UNCHANGED <<requests, panels, inlineHintsEnabled, statusBarText, documentEdits,
                       activeEditor>>
        /\ UNCHANGED otherVars

ToggleInlineHintsPersisting ==
    /\ "weave.toggleInlineHints" \in registeredCommands
    /\ Len(invs) < MaxInvocations
    /\ inlineHintsEnabled' = ~inlineHintsEnabled
    /\ hostConfig' = [hostConfig EXCEPT !.inlineHints = inlineHintsEnabled']
    /\ invs' = Append(invs, Invocation("weave.toggleInlineHints", NoEditor, "done", "none"))
    /\ messages' = Shown(messages, Len(invs) + 1, "info",
                   <<"Inline hints ", IF inlineHintsEnabled' THEN "enabled" ELSE "disabled">>)
    /\ statusBarText' = <<"Weave $(lightbulb) ",
                          IF inlineHintsEnabled' THEN "enabled" ELSE "disabled">>
    /\ UNCHANGED <<requests, panels, clipboard, documentEdits, activeEditor>>
    /\ UNCHANGED <<hostHistory, snapshot, authorization, calls,
                   foreignCommands, extState, activation, activateThrew,
                   isInitialized, registeredCommands, providersRegistered,
                   listenersRegistered, registrations, impl, composeNoImpl, lensVars,
                   completionVars>>

ToggledStuck(enabled) == FALSE

\* this.inlineHintsEnabled = !this.inlineHintsEnabled
Toggled(enabled) == ~enabled

HintsStatus(enabled) == IF enabled THEN "enabled" ELSE "disabled"

ToggleInlineHints ==
    /\ "weave.toggleInlineHints" \in registeredCommands
    /\ Len(invs) < MaxInvocations
    /\ inlineHintsEnabled' = Toggled(inlineHintsEnabled)
    /\ invs' = Append(invs, Invocation("weave.toggleInlineHints", NoEditor, "done", "none"))
    /\ messages' = Shown(messages, Len(invs) + 1, "info",
                   <<"Inline hints ", HintsStatus(inlineHintsEnabled')>>)
    /\ statusBarText' = <<"Weave $(lightbulb) ", HintsStatus(inlineHintsEnabled')>>
    /\ UNCHANGED <<requests, panels, clipboard, documentEdits, activeEditor>>
    /\ UNCHANGED otherVars

----------------------------------------------------------------------------
(* The extension: activation, commands, deactivation *)

InitExtension ==
    /\ impl \in Impls
    /\ hostConfig \in StartupConfigs
    /\ hostHistory = <<hostConfig>>
    /\ snapshot = <<>>
    /\ authorization = <<>>
    /\ AssistantIdle
    /\ foreignCommands \in ForeignCommandSets
    /\ extState = "inactive"
    /\ activation = "not-run"
    /\ activateThrew = FALSE
    /\ isInitialized = FALSE
    /\ registeredCommands = {}
    /\ providersRegistered = FALSE
    /\ listenersRegistered = FALSE
    /\ statusBarText = "none"
    /\ inlineHintsEnabled = TRUE
    /\ invs = <<>>
    /\ requests = <<>>
    /\ panels = {}
    /\ messages = {}
    /\ clipboard = <<>>
    /\ registrations = {}
    /\ documentEdits = {}
    /\ ctx = NoContext
    /\ composed = NotComposed
    /\ LensIdle
    /\ CompletionIdle

\* the active editor is not tracked: any editor may be active when a command starts
Init ==
    /\ InitExtension
    /\ activeEditor = <<>>

Next ==
    \/ Activate
    \/ Deactivate
    \/ GeneratePrompt
    \/ AnalyzeCode
    \/ SuggestOptimization
    \/ TransportResolves
    \/ TransportRejects
    \/ PromptActionChosen
    \/ ToggleInlineHints

Spec == Init /\ [][Next]_vars

----------------------------------------------------------------------------
(* All six commands with the active editor tracked:                         *)
(* CommandHandler.insertTemplate, showDocumentation, and the                *)
(* onDidChangeActiveTextEditor listener                                     *)

\* no editor, or an editor with a selection in a document of either language
CommandEditors ==
    {NoEditor} \cup [present : {TRUE}, selection : {<<"a", NL, "b">>}, language : Languages]

\* editor.document.languageId as the host names the language
LanguageId(language) ==
    CASE language = <<"t", "s">> -> "typescript"
      [] language = <<"p", "y">> -> "python"

\* the user activates another editor, or closes the last one; the listener,
\* when registered, sets the status bar for an editor whose language is, or is
\* not, in the languageScope the host holds
EditorChanged ==
    /\ activeEditor # <<>>
    /\ \E editor \in CommandEditors \ {activeEditor[1]} :
        /\ activeEditor' = <<editor>>
        /\ statusBarText' =
               IF listenersRegistered /\ editor.present
               THEN IF LanguageId(editor.language) \in hostConfig.languageScope
                    THEN "$(lightbulb) Weave Active"
                    ELSE "$(circle-slash) Weave Inactive"
               ELSE statusBarText
    /\ UNCHANGED <<requests, panels, messages, clipboard, inlineHintsEnabled, invs,
                   documentEdits>>
    /\ UNCHANGED otherVars

DocUrl == <<"https://github.com/kitium-ai/weave#readme">>

OpenExternalError == [isError |-> TRUE, reason |-> "openExternal failed"]

\* showDocumentation: await vscode.env.openExternal(uri); the host opens the
\* page or not, or the call rejects, and nothing catches the rejection
ShowDocumentation ==
    /\ "weave.showDocumentation" \in registeredCommands
    /\ Len(invs) < MaxInvocations
    /\ \E outcome \in {"opened", "not-opened", "rejected"} :
        invs' = Append(invs,
            IF outcome = "rejected"
            THEN [Invocation("weave.showDocumentation", NoEditor, "rejected", "none")
                     EXCEPT !.content = DocUrl, !.error = OpenExternalError]
            ELSE [Invocation("weave.showDocumentation", NoEditor, "done", "none")
                     EXCEPT !.content = DocUrl])
    /\ UNCHANGED <<requests, panels, messages, clipboard, inlineHintsEnabled,
                   statusBarText, documentEdits, activeEditor>>
    /\ UNCHANGED otherVars

\* the language of the three templates
TemplateLanguage == <<"t", "s">>

TemplateLabels == {"Basic Weave Usage", "Weave with Classification", "Weave with Extraction"}

\* the labels the user picks here: the first one
PickedLabels == {"Basic Weave Usage"}

\* the template text of a label, carried as one element
TemplateOf(label) == <<"template: ", label>>

LanguageWarning(language) ==
    <<"Template is for ", TemplateLanguage, ", current file is ", language>>

EditError == [isError |-> TRUE, reason |-> "TextEditor#edit not possible on closed editors"]

\* insertTemplate up to the await of showQuickPick
InsertTemplate ==
    /\ "weave.insertWeaveTemplate" \in registeredCommands
    /\ Len(invs) < MaxInvocations
    /\ \E editor \in ActiveEditors(CommandEditors) :
        LET i == Len(invs) + 1
        IN  IF EditorMissing(editor)
            THEN /\ invs' = Append(invs,
                        Invocation("weave.insertWeaveTemplate", editor, "done", "none"))
                 /\ messages' = Shown(messages, i, "error", NoEditorText)
            ELSE /\ invs' = Append(invs,
                        Invocation("weave.insertWeaveTemplate", editor, "awaiting-pick", "none"))
                 /\ UNCHANGED messages
    /\ UNCHANGED <<requests, panels, clipboard, inlineHintsEnabled, statusBarText,
                   documentEdits, activeEditor>>
    /\ UNCHANGED otherVars

\* await editor.edit(...) on the editor captured at the start, then
\* 'Template inserted': the edit is applied, or not (edit resolves false), or
\* edit throws because the editor was closed
EditApplied(i, template) ==
    \E outcome \in {"applied", "not-applied", "rejected"} :
        /\ documentEdits' =
               IF outcome = "applied"
               THEN documentEdits \cup {[inv |-> i, language |-> invs[i].editor.language,
                                         text |-> template]}
               ELSE documentEdits
        /\ IF outcome = "rejected"
           THEN /\ invs' = [invs EXCEPT ![i].pc = "rejected", ![i].content = template,
                                        ![i].error = EditError]
                /\ UNCHANGED messages
           ELSE /\ invs' = [invs EXCEPT ![i].pc = "done", ![i].content = template]
                /\ messages' = Shown(messages, i, "info", <<"Template inserted">>)

\* showQuickPick resolves: nothing picked, or a template; a template for
\* another language than the document's asks first
TemplatePicked ==
    /\ \E i \in 1..Len(invs) :
        /\ invs[i].pc = "awaiting-pick"
        /\ \E selected \in PickedLabels \cup {"undefined"} :
            IF selected = "undefined"
            THEN /\ invs' = [invs EXCEPT ![i].pc = "done"]
                 /\ UNCHANGED <<messages, documentEdits>>
            ELSE IF TemplateLanguage # invs[i].editor.language
            THEN /\ invs' = [invs EXCEPT ![i].pc = "awaiting-confirm",
                                         ![i].content = TemplateOf(selected)]
                 /\ messages' = Shown(messages, i, "warning",
                                      LanguageWarning(invs[i].editor.language))
                 /\ UNCHANGED documentEdits
            ELSE EditApplied(i, TemplateOf(selected))
    /\ UNCHANGED <<requests, panels, clipboard, inlineHintsEnabled, statusBarText,
                   activeEditor>>
    /\ UNCHANGED otherVars

\* showWarningMessage resolves
TemplateConfirmed ==
    /\ \E i \in 1..Len(invs) :
        /\ invs[i].pc = "awaiting-confirm"
        /\ \E action \in {"Insert anyway", "Cancel", "undefined"} :
            IF action # "Insert anyway"
            THEN /\ invs' = [invs EXCEPT ![i].pc = "done", ![i].content = <<>>]
                 /\ UNCHANGED <<messages, documentEdits>>
            ELSE EditApplied(i, invs[i].content)
    /\ UNCHANGED <<requests, panels, clipboard, inlineHintsEnabled, statusBarText,
                   activeEditor>>
    /\ UNCHANGED otherVars

\* the HTTP variant, a key is configured and no other extension holds a weave.* id
InitCommands ==
    /\ Init
    /\ impl = "http"
    /\ hostConfig = Settings(<<"k">>, "openai", DefaultProfile)
    /\ foreignCommands = {}

NextCommands ==
    \/ Activate
    \/ GeneratePrompt
    \/ AnalyzeCode
    \/ SuggestOptimization
    \/ TransportResolves
    \/ TransportRejects
    \/ PromptActionChosen
    \/ ShowDocumentation
    \/ InsertTemplate
    \/ TemplatePicked
    \/ TemplateConfirmed
    \/ Deactivate

SpecCommands == InitCommands /\ [][NextCommands]_vars

\* the prompt commands while the user moves between editors
InitEditor ==
    /\ InitExtension
    /\ impl = "http"
    /\ hostConfig = Settings(<<"k">>, "openai", DefaultProfile)
    /\ foreignCommands = {}
    /\ activeEditor \in {<<editor>> : editor \in CommandEditors}

NextEditor ==
    \/ Activate
    \/ EditorChanged
    \/ GeneratePrompt
    \/ AnalyzeCode
    \/ SuggestOptimization
    \/ TransportResolves
    \/ TransportRejects

SpecEditor == InitEditor /\ [][NextEditor]_vars

\* activation from every startup configuration, with the editor listener
InitStatus ==
    /\ InitExtension
    /\ impl = "http"
    /\ activeEditor \in {<<editor>> : editor \in CommandEditors}

NextStatus ==
    \/ Activate
    \/ EditorChanged
    \/ AnalyzeCode
    \/ TransportResolves
    \/ TransportRejects
    \/ Deactivate

SpecStatus == InitStatus /\ [][NextStatus]_vars

----------------------------------------------------------------------------
(* The extension while the user edits the weave.* settings:                *)
(* registerEventListeners, the onDidChangeConfiguration listener           *)

MaxConfigChanges == 1

\* the settings after the user has edited the key, the provider, the model
\* with its temperature and token limit, or the language scope
EditsOf(config) ==
    {c \in HostConfigs :
        /\ c # config
        /\ \/ /\ c.provider = config.provider /\ c.model = config.model
              /\ c.languageScope = config.languageScope
           \/ /\ c.apiKey = config.apiKey /\ c.model = config.model
              /\ c.languageScope = config.languageScope
           \/ /\ c.apiKey = config.apiKey /\ c.provider = config.provider
              /\ c.languageScope = config.languageScope
           \/ /\ c.apiKey = config.apiKey /\ c.provider = config.provider
              /\ c.model = config.model}

ConfigUpdatedText == <<"Weave configuration updated">>

AffectsAnySection(changed, section) == changed # {}

\* event.affectsConfiguration(section), changed being the sections the event
\* reports as changed
AffectsConfiguration(changed, section) == section \in changed

\* the host's settings become store (hostHistory gets one entry per
\* notification) and onDidChangeConfiguration fires; the listener, when
\* registered, runs config.reload() and shows the message if the event affects
\* 'weave' (message owner -1: the listener)
OnDidChangeConfiguration(changed, store) ==
    /\ hostConfig' = store
    /\ hostHistory' = Append(hostHistory, store)
    /\ IF listenersRegistered /\ AffectsConfiguration(changed, "weave")
       THEN /\ snapshot' = Reload(snapshot, store)
            /\ messages' = Shown(messages, -1, "info", ConfigUpdatedText)
       ELSE UNCHANGED <<snapshot, messages>>

\* the user edits a weave.* setting
ConfigurationChanged ==
    /\ extState = "activated"
    /\ Len(hostHistory) <= MaxConfigChanges
    /\ \E new \in EditsOf(hostConfig) : OnDidChangeConfiguration({"weave"}, new)
    /\ UNCHANGED <<authorization, foreignCommands, extState, activation, activateThrew,
                   isInitialized, registeredCommands, providersRegistered,
                   listenersRegistered, statusBarText, inlineHintsEnabled, invs,
                   requests, panels, clipboard, registrations, documentEdits,
                   activeEditor>>
    /\ UNCHANGED <<impl, composeNoImpl, lensVars, completionVars, calls>>

\* the user edits a setting of another section: the weave.* settings stay
OtherConfigurationChanged ==
    /\ extState = "activated"
    /\ Len(hostHistory) <= MaxConfigChanges
    /\ OnDidChangeConfiguration({"editor"}, hostConfig)
    /\ UNCHANGED <<authorization, foreignCommands, extState, activation, activateThrew,
                   isInitialized, registeredCommands, providersRegistered,
                   listenersRegistered, statusBarText, inlineHintsEnabled, invs,
                   requests, panels, clipboard, registrations, documentEdits,
                   activeEditor>>
    /\ UNCHANGED <<impl, composeNoImpl, lensVars, completionVars, calls>>

UpdateError == [isError |-> TRUE, reason |-> "Unable to write to User Settings"]

\* ConfigurationManager.setApiKey up to the await: config.update writes the
\* key to the user settings, which fires onDidChangeConfiguration, or rejects
\* and setApiKey throws
SetApiKey ==
    /\ extState = "activated"
    /\ snapshot # <<>>
    /\ Len(calls) < MaxConfigChanges
    /\ Len(hostHistory) <= MaxConfigChanges
    /\ \E key \in ApiKeys \ {hostConfig.apiKey}, written \in BOOLEAN :
        IF written
        THEN /\ OnDidChangeConfiguration({"weave"}, [hostConfig EXCEPT !.apiKey = key])
             /\ calls' = Append(calls, [Call("setApiKey", isInitialized, "awaiting-update")
                                           EXCEPT !.content = key])
        ELSE /\ calls' = Append(calls, [Call("setApiKey", isInitialized, "threw")
                                           EXCEPT !.content = key, !.error = UpdateError])
             /\ UNCHANGED <<hostConfig, hostHistory, snapshot, messages>>
    /\ UNCHANGED <<authorization, foreignCommands, extState, activation, activateThrew,
                   isInitialized, registeredCommands, providersRegistered,
                   listenersRegistered, statusBarText, inlineHintsEnabled, invs,
                   requests, panels, clipboard, registrations, documentEdits,
                   activeEditor>>
    /\ UNCHANGED <<impl, composeNoImpl, lensVars, completionVars>>

\* setApiKey after the await: this.reload()
SetApiKeyReturns ==
    /\ \E i \in 1..Len(calls) :
        /\ calls[i].op = "setApiKey"
        /\ calls[i].pc = "awaiting-update"
        /\ calls' = [calls EXCEPT ![i].pc = "returned"]
    /\ snapshot' = Reload(snapshot, hostConfig)
    /\ UNCHANGED <<hostConfig, hostHistory, messages, authorization, foreignCommands,
                   extState, activation, activateThrew,
                   isInitialized, registeredCommands, providersRegistered,
                   listenersRegistered, statusBarText, inlineHintsEnabled, invs,
                   requests, panels, clipboard, registrations, documentEdits,
                   activeEditor>>
    /\ UNCHANGED <<impl, composeNoImpl, lensVars, completionVars>>

\* no other extension holds a weave.* command id
InitSettings ==
    /\ Init
    /\ foreignCommands = {}

NextSettings ==
    \/ Activate
    \/ ConfigurationChanged
    \/ OtherConfigurationChanged
    \/ AnalyzeCode
    \/ TransportResolves
    \/ TransportRejects
    \/ Deactivate

SpecSettings == InitSettings /\ [][NextSettings]_vars

\* the writers of the host store: the user, setApiKey, and the commands
NextStore ==
    \/ Activate
    \/ ConfigurationChanged
    \/ SetApiKey
    \/ SetApiKeyReturns
    \/ ToggleInlineHints
    \/ AnalyzeCode
    \/ TransportResolves
    \/ Deactivate

SpecStore == InitSettings /\ [][NextStore]_vars

----------------------------------------------------------------------------
(* Completion provider: CodeCompletionProvider.provideCompletionItems      *)

PreviewLen == 50

MinWordLen == 3

\* document.getText(document.getWordRangeAtPosition(position)), '' without a range
Words == SeqsUpTo({"w"}, MaxWordLen)

TriggerKinds == {"Invoke", "TriggerCharacter", "TriggerForIncompleteCompletions"}

\* context.triggerCharacter: undefined, or the registered trigger character
TriggerCharacters == {"undefined", "."}

CompletionContexts ==
    [code : {<<"a", NL, "b">>}, language : MainLanguages, fileName : {"f.ts"},
     line : {0, 1}, column : {0}]

LongContent == [k \in 1..(PreviewLen + 2) |-> IF k <= PreviewLen THEN "p" ELSE "q"]

CompletionContents(variant) ==
    IF variant = "mock" THEN {MockContent("completion")}
    ELSE HttpContents \cup {LongContent}

WordTooShortOffByOne(word) == Len(word) < MinWordLen - 1

\* word.length < 3
WordTooShort(word) == Len(word) < MinWordLen

BareTriggerNever(kind, character) == FALSE

\* triggerKind === TriggerCharacter && !context.triggerCharacter
BareTrigger(kind, character) == kind = "TriggerCharacter" /\ character = "undefined"

LabelPrefix == <<"W", "e", "a", "v", "e", ":", " ">>

LabelSuffix == <<".", ".", ".">>

\* new CompletionItem(completion, Text) with sortText, label, detail, documentation set
CompletionItem(text) ==
    [kind |-> "Text",
     sortText |-> "0-weave",
     label |-> LabelPrefix \o Substring0(text, PreviewLen) \o LabelSuffix,
     detail |-> "AI-powered completion by Weave",
     documentation |-> "Completion suggested by Weave AI Assistant"]

CompletionResultUnchecked(cancelled, content) == <<CompletionItem(content)>>

\* after the await: if (token.isCancellationRequested) return null, else the
\* one item
CompletionResult(cancelled, content) ==
    IF cancelled THEN Null ELSE <<CompletionItem(content)>>

\* the extension activated with a key, and one provideCompletionItems call
\* about to be made
CompletionStart ==
    /\ impl \in Impls
    /\ \E word \in Words, kind \in TriggerKinds, character \in TriggerCharacters,
          context \in CompletionContexts :
           completion = [NoCompletion EXCEPT !.word = word, !.triggerKind = kind,
                                             !.triggerCharacter = character,
                                             !.context = context]
    /\ completionCancelled \in BOOLEAN
    /\ hostConfig = Settings(<<"k">>, "openai", DefaultProfile)
    /\ hostHistory = <<hostConfig>>
    /\ snapshot = <<hostConfig>>
    /\ authorization = AuthorizationBuilt(impl, snapshot)
    /\ AssistantIdle
    /\ foreignCommands = {}
    /\ extState = "activated"
    /\ activation = "ok"
    /\ activateThrew = FALSE
    /\ isInitialized = TRUE
    /\ registeredCommands = CommandIds
    /\ providersRegistered = TRUE
    /\ listenersRegistered = TRUE
    /\ statusBarText = "$(check) Weave Ready"
    /\ inlineHintsEnabled = TRUE
    /\ invs = <<>>
    /\ requests = <<>>
    /\ panels = {}
    /\ messages = {}
    /\ clipboard = <<>>
    /\ registrations = RegisterProviders(hostConfig)
    /\ documentEdits = {}
    /\ activeEditor = <<>>
    /\ ctx = NoContext
    /\ composed = NotComposed

InitCompletion ==
    /\ CompletionStart
    /\ LensIdle

completionFrame ==
    <<impl, composeNoImpl, lensVars, hostConfig, hostHistory, snapshot, authorization,
      calls, foreignCommands, extState, activation,
      activateThrew, registeredCommands, providersRegistered, listenersRegistered,
      statusBarText, inlineHintsEnabled, invs, panels, messages, clipboard,
      registrations, documentEdits, activeEditor>>

\* provideCompletionItems up to the await of generateCompletion
ProvideCompletionItems ==
    /\ completion.pc = "not-called"
    /\ IF completionCancelled
          \/ WordTooShort(completion.word)
          \/ BareTrigger(completion.triggerKind, completion.triggerCharacter)
       THEN /\ completion' = [completion EXCEPT !.pc = "returned", !.result = Null]
            /\ UNCHANGED requests
       ELSE IF EnsureInitializedThrows(isInitialized)
       THEN \* ensureInitialized throws; the catch block logs and returns null
            /\ completion' = [completion EXCEPT !.pc = "returned", !.result = Null]
            /\ UNCHANGED requests
       ELSE /\ completion' = [completion EXCEPT !.pc = "awaiting-transport",
                                                !.transport = "pending"]
            /\ requests' = Post(requests,
                   Request(impl, 0, "complete", completion.context,
                           snapshot, authorization))
    /\ UNCHANGED <<completionCancelled, isInitialized>>
    /\ UNCHANGED completionFrame

\* the host cancels the request (the user typed on, the editor lost focus)
CancellationRequested ==
    /\ completion.pc # "returned"
    /\ ~completionCancelled
    /\ completionCancelled' = TRUE
    /\ UNCHANGED <<completion, requests, isInitialized>>
    /\ UNCHANGED completionFrame

\* generateCompletion resolves with result.content
CompletionResolves ==
    /\ completion.pc = "awaiting-transport"
    /\ \E content \in CompletionContents(impl) :
           completion' = [completion EXCEPT
               !.pc = "returned",
               !.transport = "ok",
               !.content = content,
               !.result = CompletionResult(completionCancelled, content)]
    /\ UNCHANGED <<completionCancelled, requests, isInitialized>>
    /\ UNCHANGED completionFrame

\* generateCompletion rejects: logError and return null
CompletionRejects ==
    /\ completion.pc = "awaiting-transport"
    /\ CanReject(impl)
    /\ completion' = [completion EXCEPT !.pc = "returned", !.transport = "failed",
                                        !.result = Null]
    /\ UNCHANGED <<completionCancelled, requests, isInitialized>>
    /\ UNCHANGED completionFrame

DisposeAssistantAborting ==
    /\ isInitialized
    /\ isInitialized' = FALSE
    /\ calls' = [i \in DOMAIN calls |->
                    IF calls[i].pc = "awaiting-transport"
                    THEN [calls[i] EXCEPT !.pc = "threw", !.error = NotInitializedError]
                    ELSE calls[i]]
    /\ UNCHANGED <<completion, completionCancelled, requests>>
    /\ UNCHANGED <<impl, composeNoImpl, lensVars, hostConfig, hostHistory, snapshot,
                   authorization, foreignCommands, extState, activation,
                   activateThrew, registeredCommands, providersRegistered,
                   listenersRegistered, statusBarText, inlineHintsEnabled, invs,
                   panels, messages, clipboard, registrations, documentEdits,
                   activeEditor>>

\* deactivate runs while the provider objects are still alive
DisposeAssistant ==
    /\ isInitialized
    /\ isInitialized' = FALSE
    /\ UNCHANGED <<completion, completionCancelled, requests>>
    /\ UNCHANGED completionFrame

NextCompletion ==
    \/ ProvideCompletionItems
    \/ CancellationRequested
    \/ CompletionResolves
    \/ CompletionRejects
    \/ DisposeAssistant

SpecCompletion == InitCompletion /\ [][NextCompletion]_vars

----------------------------------------------------------------------------
(* Both providers under the host's cancellation tokens: one completion call *)
(* and one code-lens call                                                   *)

ProviderDocs ==
    {<<>>, <<"function", " ", "x">>, <<"x", NL, "async", " ", "class", " ", "x">>}

InitProviders ==
    /\ CompletionStart
    /\ document \in ProviderDocs \cap LensDocs
    /\ lensCancelled \in BOOLEAN
    /\ lenses = "not-called"

NextProviders ==
    \/ ProvideCompletionItems
    \/ CancellationRequested
    \/ CompletionResolves
    \/ CompletionRejects
    \/ DisposeAssistant
    \/ ProvideCodeLenses

SpecProviders == InitProviders /\ [][NextProviders]_vars

----------------------------------------------------------------------------
(* The WeaveAssistant object used directly: new WeaveAssistant(config),     *)
(* then initialize, the five operations and dispose in any order            *)

MaxCalls == 3

AssistantContexts == {c \in CompletionContexts : c.line = 1}

\* `API key not configured for ${provider}`
ConfigError(provider) ==
    [isError |-> TRUE,
     reason |-> CASE provider = "openai" -> "API key not configured for openai"
                  [] provider = "anthropic" -> "API key not configured for anthropic"
                  [] provider = "local" -> "API key not configured for local"]

InitAssistant ==
    /\ impl \in Impls
    /\ hostConfig \in StartupConfigs
    /\ hostHistory = <<hostConfig>>
    /\ snapshot = Reload(<<>>, hostConfig)
    /\ authorization = AuthorizationBuilt(impl, snapshot)
    /\ isInitialized = FALSE
    /\ requests = <<>>
    /\ calls = <<>>
    /\ ExtensionIdle
    /\ ctx = NoContext
    /\ composed = NotComposed
    /\ LensIdle
    /\ CompletionIdle

assistantFrame ==
    <<impl, composeNoImpl, lensVars, completionVars, hostConfig, hostHistory, snapshot,
      authorization, foreignCommands, extState, activation, activateThrew,
      registeredCommands, providersRegistered, listenersRegistered, statusBarText,
      inlineHintsEnabled, invs, panels, messages, clipboard, registrations,
      documentEdits, activeEditor>>

\* WeaveAssistant.initialize; the record keeps isInitialized as the call left it
Initialize ==
    /\ Len(calls) < MaxCalls
    /\ IF InitializeThrows(snapshot[1])
       THEN /\ calls' = Append(calls,
                     [Call("initialize", isInitialized, "threw")
                         EXCEPT !.error = ConfigError(snapshot[1].provider)])
            /\ UNCHANGED isInitialized
       ELSE /\ calls' = Append(calls, Call("initialize", TRUE, "returned"))
            /\ isInitialized' = TRUE
    /\ UNCHANGED requests
    /\ UNCHANGED assistantFrame

\* generatePrompt / analyzeCode / suggestOptimization / generateCompletion /
\* generateDocumentation up to the await in callWeaveAPI
AssistantCall(op) ==
    /\ Len(calls) < MaxCalls
    /\ \E context \in AssistantContexts :
        IF EnsureInitializedThrows(isInitialized)
        THEN /\ calls' = Append(calls, [Call(op, isInitialized, "threw")
                                           EXCEPT !.error = NotInitializedError])
             /\ UNCHANGED requests
        ELSE /\ calls' = Append(calls, [Call(op, isInitialized, "awaiting-transport")
                                           EXCEPT !.post = "pending"])
             /\ requests' = Post(requests,
                    Request(impl, Len(calls) + 1, op, context, snapshot, authorization))
    /\ UNCHANGED isInitialized
    /\ UNCHANGED assistantFrame

AssistantGeneratePrompt == AssistantCall("generate-prompt")

AssistantAnalyzeCode == AssistantCall("analyze")

AssistantSuggestOptimization == AssistantCall("suggest-optimization")

AssistantGenerateCompletion == AssistantCall("complete")

AssistantGenerateDocumentation == AssistantCall("generate-documentation")

\* what the awaited transport call can resolve to
Responses(variant, type) ==
    IF variant = "mock"
    THEN {[defined |-> TRUE, hasContent |-> TRUE, content |-> MockContent(type)]}
    ELSE ResponseData

\* the awaited transport call resolves: the result is built from response.data
\* (reading data.tokensUsed of a response without data throws; the catch block
\* rethrows)
PostResolves ==
    /\ \E i \in 1..Len(calls) :
        /\ calls[i].pc = "awaiting-transport"
        /\ \E data \in Responses(impl, ResultTypeOf(calls[i].op)) :
            calls' = [calls EXCEPT ![i] =
                IF data.defined
                THEN [@ EXCEPT !.pc = "returned", !.post = "resolved", !.data = data,
                               !.type = ResultTypeOf(calls[i].op),
                               !.content = ContentOf(data)]
                ELSE [@ EXCEPT !.pc = "threw", !.post = "resolved", !.data = data,
                               !.error = NoDataError]]
    /\ UNCHANGED <<isInitialized, requests>>
    /\ UNCHANGED assistantFrame

\* the awaited transport call rejects: logError, throw error
PostRejects ==
    /\ CanReject(impl)
    /\ \E i \in 1..Len(calls) :
        /\ calls[i].pc = "awaiting-transport"
        /\ \E error \in TransportErrors :
            calls' = [calls EXCEPT ![i].pc = "threw", ![i].post = "rejected",
                                   ![i].error = error]
    /\ UNCHANGED <<isInitialized, requests>>
    /\ UNCHANGED assistantFrame

NextAssistant ==
    \/ Initialize
    \/ AssistantGeneratePrompt
    \/ AssistantAnalyzeCode
    \/ AssistantSuggestOptimization
    \/ AssistantGenerateCompletion
    \/ AssistantGenerateDocumentation
    \/ PostResolves
    \/ PostRejects
    \/ DisposeAssistant

SpecAssistant == InitAssistant /\ [][NextAssistant]_vars

----------------------------------------------------------------------------
(* The result callWeaveAPI builds, for any context and any operation        *)

ResultInTypeScript(variant, type, context, data) ==
    [type |-> type,
     content |-> IF variant = "mock" THEN MockContent(type) ELSE ContentOf(data),
     language |-> <<"t", "s">>]

\* return { type, content, language: context.language, ... }: the mock
\* variant fills in its placeholder text, the HTTP variant data.content
ResultOf(variant, type, context, data) ==
    [type |-> type,
     content |-> IF variant = "mock" THEN MockContent(type) ELSE ContentOf(data),
     language |-> context.language]

\* one operation from the composed prompts to the result, the transport call
\* having resolved with data
CallWeaveAPI(op) ==
    /\ \E data \in {d \in Responses(impl, ResultTypeOf(op)) : d.defined} :
           composed' = [op |-> op,
                        systemPrompt |-> SystemPromptOf(op),
                        userPrompt |-> UserPromptOf(op, ctx),
                        result |-> ResultOf(impl, ResultTypeOf(op), ctx, data)]
    /\ UNCHANGED <<impl, ctx>>
    /\ UNCHANGED lensVars
    /\ UNCHANGED mainVars
    /\ UNCHANGED completionVars
    /\ UNCHANGED calls

ResultGeneratePrompt == CallWeaveAPI("generate-prompt")

ResultAnalyze == CallWeaveAPI("analyze")

ResultSuggestOptimization == CallWeaveAPI("suggest-optimization")

ResultComplete == CallWeaveAPI("complete")

ResultGenerateDocumentation == CallWeaveAPI("generate-documentation")

NextResult ==
    \/ ResultGeneratePrompt
    \/ ResultAnalyze
    \/ ResultSuggestOptimization
    \/ ResultComplete
    \/ ResultGenerateDocumentation

SpecResult == InitCompose /\ [][NextResult]_vars

----------------------------------------------------------------------------
(* Properties of the request composer *)

\* a fenced block: three backquotes, the language tag, the text, three backquotes
Fence(language, text) == BackTicks \o language \o <<NL>> \o text \o <<NL>> \o BackTicks

\* the text of s that precedes line n (0-based), found by counting newlines
TextBeforeLine(s, n) ==
    IF n = 0 THEN <<>>
    ELSE IF Cardinality({i \in 1..Len(s) : s[i] = NL}) < n THEN s
    ELSE LET k == CHOOSE i \in 1..Len(s) :
                      /\ s[i] = NL
                      /\ Cardinality({j \in 1..i : s[j] = NL}) = n
         IN  SubSeq(s, 1, k - 1)

\* C7 as stated: for each of the four operation kinds the composed user prompt
\* contains the verbatim input code of the context inside a fenced block tagged
\* with the context's language.
C7_AllKindsVerbatim ==
    composed.op # "none" =>
        Contains(composed.userPrompt, Fence(ctx.language, ctx.code))

\* C7 amended: generate-prompt, analyze and suggest-optimization embed the
\* verbatim input code in a fenced block tagged with the language; complete
\* embeds, in a fenced block tagged with the language, only the text before the
\* cursor line followed by the cursor marker.
C7_FencedCode ==
    /\ composed.op \in {"generate-prompt", "analyze", "suggest-optimization"} =>
           Contains(composed.userPrompt, Fence(ctx.language, ctx.code))
    /\ composed.op = "complete" =>
           Contains(composed.userPrompt,
                    Fence(ctx.language,
                          TextBeforeLine(ctx.code, ctx.line) \o <<NL>> \o CursorMarker))

C7_Witness ==
    /\ composed.op = "complete"
    /\ ctx.line = 1
    /\ TextBeforeLine(ctx.code, ctx.line) # <<>>
    /\ TextBeforeLine(ctx.code, ctx.line) # ctx.code

\* C8: the prompt composed by complete is determined by the text before the
\* cursor line alone: every document with the same text before the cursor line
\* gives the same prompt, so nothing of the cursor line or of a later line is
\* in it.
C8_NoLookahead ==
    composed.op = "complete" =>
        /\ \A d \in Codes :
               TextBeforeLine(d, ctx.line) = TextBeforeLine(ctx.code, ctx.line) =>
                   GenerateCompletionUser([ctx EXCEPT !.code = d], ctx.line)
                       = composed.userPrompt
        /\ Len(composed.userPrompt)
               = Len(GenerateCompletionUser([ctx EXCEPT !.code = <<>>], 0))
                 + Len(TextBeforeLine(ctx.code, ctx.line))

C8_Witness ==
    /\ composed.op = "complete"
    /\ ctx.line = 1
    /\ NumLines(ctx.code) = 3
    /\ ctx.code[1] # NL
    /\ ctx.code[Len(ctx.code)] # NL

----------------------------------------------------------------------------
(* Properties of the code-lens provider *)

\* the pattern (async )?(function|class) name occurs in d starting at position i
\* and ending before position e: an optional async and spaces, a keyword at k,
\* spaces, and the whole run of word characters that starts at n
OccursFromTo(d, i, e) ==
    \E k \in i..Len(d), n \in i..Len(d) :
        /\ d[k] \in {"function", "class"}
        /\ \/ k = i
           \/ /\ d[i] = "async"
              /\ k > i + 1
              /\ \A j \in (i + 1)..(k - 1) : IsSpace(d[j])
        /\ n > k + 1
        /\ \A j \in (k + 1)..(n - 1) : IsSpace(d[j])
        /\ n < e
        /\ \A j \in n..(e - 1) : IsWord(d[j])
        /\ e = Len(d) + 1 \/ ~IsWord(d[e])

OccursAt(d, i) == \E e \in (i + 1)..(Len(d) + 1) : OccursFromTo(d, i, e)

AtLineStart(d, i) == i = 1 \/ d[i - 1] = NL

\* the positions a left-to-right scan reports among the candidate positions
\* cand: a candidate is reported unless it lies inside an earlier reported
\* occurrence
Reported(d, cand) ==
    CHOOSE T \in SUBSET cand :
        \A i \in cand :
            i \in T <=> ~\E j \in T : \E e \in (j + 1)..(Len(d) + 1) :
                            j < i /\ i < e /\ OccursFromTo(d, j, e)

\* occurrences anywhere in the text that start a word (not the tail of a longer word)
OccurrencesAnywhere(d) ==
    Reported(d, {i \in 1..Len(d) : (i = 1 \/ ~IsWord(d[i - 1])) /\ OccursAt(d, i)})

OccurrencesAtLineStart(d) ==
    Reported(d, {i \in 1..Len(d) : AtLineStart(d, i) /\ OccursAt(d, i)})

LineOf(d, i) == Cardinality({j \in 1..(i - 1) : d[j] = NL})

\* one analyze lens at the document start, then one optimize lens per position of occ
LensesFor(d, occ) ==
    /\ lenses # Null
    /\ Len(lenses) = 1 + Cardinality(occ)
    /\ lenses[1].command = "weave.analyzeCode"
    /\ lenses[1].range.start = [line |-> 0, character |-> 0]
    /\ \A n \in 2..Len(lenses) : lenses[n].command = "weave.suggestOptimization"
    /\ {lenses[n].range.start.line : n \in 2..Len(lenses)} = {LineOf(d, i) : i \in occ}

\* C4 as stated (for a call that is not cancelled): one lens at the document
\* start plus one lens per occurrence of (async )?(function|class) name
\* anywhere in the document text.
C4_LensPerOccurrence ==
    (lenses # "not-called" /\ ~lensCancelled) =>
        LensesFor(document, OccurrencesAnywhere(document))

\* C4 amended: a call that is not cancelled returns one analyze lens at the
\* document start plus one optimize lens per occurrence of the pattern that
\* begins at the start of a line and is not inside an earlier reported
\* occurrence, each anchored at column 0 of its line; with no such occurrence
\* it returns exactly one lens.  A cancelled call returns null.
C4_LensPerLineStartOccurrence ==
    lenses # "not-called" =>
        IF lensCancelled THEN lenses = Null
        ELSE /\ LensesFor(document, OccurrencesAtLineStart(document))
             /\ \A n \in 2..Len(lenses) :
                    /\ lenses[n].range.start.character = 0
                    /\ lenses[n].range.end
                           = [line |-> lenses[n].range.start.line, character |-> 5]
             /\ OccurrencesAtLineStart(document) = {} => lenses = <<AnalyzeLens>>

C4_Witness ==
    /\ lenses # "not-called"
    /\ ~lensCancelled
    /\ Len(lenses) = 2
    /\ lenses[2].range.start.line = 1
    /\ Cardinality(OccurrencesAnywhere(document)) = 1

----------------------------------------------------------------------------
(* Properties of the commands *)

MessagesOf(i) == {m \in messages : m.inv = i}

PanelsOf(i) == {q \in panels : q.inv = i}

RequestsOf(i) == {k \in 1..Len(requests) : requests[k].inv = i}

PromptInvocations == {i \in 1..Len(invs) : invs[i].cmd \in PromptCommands}

EmptySelectionInvocations ==
    {i \in PromptInvocations : invs[i].editor.present /\ invs[i].editor.selection = <<>>}

\* C1: a generate-prompt, analyze-code or suggest-optimization invocation with
\* an active editor whose selection is empty issues no transport call, opens no
\* panel and shows exactly one message, the 'Please select code ...' error.
C1_EmptySelectionRejected ==
    \A i \in EmptySelectionInvocations :
        /\ invs[i].pc = "done"
        /\ RequestsOf(i) = {}
        /\ PanelsOf(i) = {}
        /\ Cardinality(MessagesOf(i)) = 1
        /\ \A m \in MessagesOf(i) :
               m.kind = "error" /\ m.text = SelectCodeText(invs[i].cmd)

C1_Witness ==
    /\ Len(invs) = 2
    /\ 1 \in EmptySelectionInvocations
    /\ invs[2].transport = "ok"
    /\ isInitialized

FailedTransportInvocations ==
    {i \in PromptInvocations : invs[i].transport = "failed"}

\* C2: an invocation whose transport call fails renders no panel and shows
\* exactly one error message, and that message contains the failure reason of
\* the underlying error.
C2_FailureReasonShown ==
    \A i \in FailedTransportInvocations :
        /\ PanelsOf(i) = {}
        /\ Cardinality(MessagesOf(i)) = 1
        /\ \A m \in MessagesOf(i) :
               m.kind = "error" /\ Contains(m.text, <<invs[i].error.reason>>)

ToggleInvocations == {i \in 1..Len(invs) : invs[i].cmd = "weave.toggleInlineHints"}

\* C5: the inline-hints flag starts enabled; after an even number of toggles
\* it has its original value and after an odd number the negation, so two
\* toggles bring it back.
C5_ToggleRoundTrip ==
    inlineHintsEnabled = (Cardinality(ToggleInvocations) % 2 = 0)

C5_Witness ==
    /\ Cardinality(ToggleInvocations) = 2
    /\ inlineHintsEnabled

SucceededInvocations == {i \in PromptInvocations : invs[i].transport = "ok"}

\* every newline of the content turned into <br>, character by character
WithLineBreaks(content) ==
    LET br == <<"<", "b", "r", ">">>
        width(k) == IF content[k] = NL THEN 4 ELSE 1
        \* where the image of character k starts
        start(k) == k + 3 * Cardinality({j \in 1..(k - 1) : content[j] = NL})
        total == Len(content) + 3 * Cardinality({j \in 1..Len(content) : content[j] = NL})
    IN  IF total = Len(content) THEN content
        ELSE [p \in 1..total |->
                LET k == CHOOSE k \in 1..Len(content) :
                             start(k) <= p /\ p < start(k) + width(k)
                IN  IF content[k] = NL THEN br[p - start(k) + 1] ELSE content[k]]

\* C6: an invocation whose transport call succeeded has opened exactly one
\* panel of its own, other invocations none, so the number of panels equals
\* the number of invocations whose transport call succeeded; the panel's body
\* contains the returned content with every newline turned into a line break.
C6_PanelPerSuccess ==
    /\ \A i \in 1..Len(invs) :
           Cardinality(PanelsOf(i)) = IF i \in SucceededInvocations THEN 1 ELSE 0
    /\ Cardinality(panels) = Cardinality(SucceededInvocations)
    /\ \A q \in panels :
           /\ q.title = PanelTitle(invs[q.inv].cmd)
           /\ Contains(q.html, WithLineBreaks(invs[q.inv].content))
           /\ \A k \in 1..Len(q.html) : q.html[k] # NL

C6_Witness ==
    /\ Cardinality(SucceededInvocations) = 2
    /\ Cardinality(panels) = 2
    /\ \E i \in SucceededInvocations : \E k \in 1..Len(invs[i].content) :
           invs[i].content[k] = NL
    /\ \A i \in 1..Len(invs) : invs[i].pc = "done"

----------------------------------------------------------------------------
(* Properties of activation *)

ActivationMessages == {m \in messages : m.inv = 0}

\* C10: activate never propagates an error to the host; a failed activation
\* has shown exactly one message, the 'Failed to initialize Weave AI Assistant'
\* error, and an activation without failure none.
C10_ActivateNeverThrows ==
    /\ ~activateThrew
    /\ extState # "inactive" =>
           IF activation = "failed"
           THEN /\ Cardinality(ActivationMessages) = 1
                /\ \A m \in ActivationMessages :
                       m.kind = "error" /\ m.text = InitFailedText
           ELSE ActivationMessages = {}

C10_Witness ==
    /\ extState = "activated"
    /\ activation = "failed"
    /\ hostConfig.apiKey = <<>>
    /\ foreignCommands = {}
    /\ Cardinality(ActivationMessages) = 1

----------------------------------------------------------------------------
(* Properties of the completion provider *)

\* the label shows 'Weave: ', then the first PreviewLen characters of the
\* content (all of it when it is shorter), then '...'
IsPreviewLabel(label, content) ==
    LET n == IF Len(content) < PreviewLen THEN Len(content) ELSE PreviewLen
    IN  /\ Len(label) = 7 + n + 3
        /\ SubSeq(label, 1, 7) = <<"W", "e", "a", "v", "e", ":", " ">>
        /\ \A k \in 1..n : label[7 + k] = content[k]
        /\ SubSeq(label, 7 + n + 1, 7 + n + 3) = <<".", ".", ".">>

\* C3 as stated: no candidates when the word under the cursor is shorter than
\* 3, exactly one candidate in every other case.
C3_OneCandidateOtherwise ==
    completion.pc = "returned" =>
        IF Len(completion.word) < 3 THEN completion.result = Null
        ELSE completion.result # Null /\ Len(completion.result) = 1

\* C3 amended: no candidates when the word under the cursor is shorter than 3;
\* exactly one candidate when the word has 3 or more characters, cancellation
\* is requested neither on entry nor by the time the assistant call resolves,
\* the trigger is not a trigger-character event without a character, and the
\* assistant call succeeds; null in every other case.  The candidate's label is
\* 'Weave: ', the first 50 characters of the content, '...'.
C3_OneCandidateWhenNotSuppressed ==
    completion.pc = "returned" =>
        /\ Len(completion.word) < 3 =>
               (completion.result = Null /\ requests = <<>>)
        /\ completion.result # Null <=>
               /\ Len(completion.word) >= 3
               /\ ~completionCancelled
               /\ ~(completion.triggerKind = "TriggerCharacter"
                    /\ completion.triggerCharacter = "undefined")
               /\ completion.transport = "ok"
        /\ completion.result # Null =>
               /\ Len(completion.result) = 1
               /\ IsPreviewLabel(completion.result[1].label, completion.content)

C3_Witness ==
    /\ completion.pc = "returned"
    /\ Len(completion.word) = 3
    /\ completion.result # Null
    /\ Len(completion.content) > PreviewLen
    /\ impl = "http"

----------------------------------------------------------------------------
(* Properties of the providers under cancellation *)

\* C11: a completion call or a code-lens call whose cancellation token has
\* fired by the time it returns, whether on entry or while the call was
\* suspended on the transport, returns the empty result (null): it returns no
\* candidate and no lens list; a call cancelled on entry issues no transport
\* call.
C11_CancelledReturnsEmpty ==
    /\ (completion.pc = "returned" /\ completionCancelled) =>
           completion.result = Null
    /\ (completion.pc = "returned" /\ completionCancelled
          /\ completion.transport = "none") => requests = <<>>
    /\ (lenses # "not-called" /\ lensCancelled) => lenses = Null

C11_Witness ==
    /\ completion.pc = "returned"
    /\ completionCancelled
    /\ completion.transport = "ok"
    /\ Len(requests) = 1
    /\ completion.result = Null
    /\ lensCancelled
    /\ lenses = Null
    /\ Exec(document, 1) # <<>>

----------------------------------------------------------------------------
(* Properties of the WeaveAssistant object *)

InitializeCalls == {i \in 1..Len(calls) : calls[i].op = "initialize"}

OperationCalls == {i \in 1..Len(calls) : calls[i].op \in AssistantOperations}

\* C12: initialize throws, with the 'API key not configured' error, exactly
\* when the configured API key is empty and the provider is not 'local'; in
\* every other case it returns and leaves the assistant initialized.
C12_InitializeFailsOnMissingKey ==
    \A i \in InitializeCalls :
        /\ calls[i].pc = "threw" <=>
               (hostConfig.apiKey = <<>> /\ hostConfig.provider # "local")
        /\ calls[i].pc = "threw" =>
               /\ calls[i].error.isError
               /\ calls[i].error.reason \in {"API key not configured for openai",
                                             "API key not configured for anthropic"}
               /\ ~calls[i].initialized
        /\ calls[i].pc # "threw" =>
               (calls[i].pc = "returned" /\ calls[i].initialized)

C12_Witness ==
    /\ Len(calls) = 1
    /\ calls[1].op = "initialize"
    /\ calls[1].pc = "returned"
    /\ hostConfig.apiKey = <<>>
    /\ hostConfig.provider = "local"
    /\ isInitialized

\* C14: each of the five operations called while the assistant is not
\* initialized (before initialize has succeeded, or after dispose) throws
\* 'WeaveAssistant not initialized' and issues no transport call.
C14_UninitializedThrows ==
    \A i \in OperationCalls :
        ~calls[i].initialized =>
            /\ calls[i].pc = "threw"
            /\ calls[i].error = [isError |-> TRUE, reason |-> "WeaveAssistant not initialized"]
            /\ RequestsOf(i) = {}

C14_Witness ==
    /\ Len(calls) = 3
    /\ calls[1].op = "complete"
    /\ ~calls[1].initialized
    /\ calls[2].op = "initialize"
    /\ calls[2].pc = "returned"
    /\ calls[3].op = "generate-documentation"
    /\ ~calls[3].initialized
    /\ calls[3].pc = "threw"

\* C15: every operation call that passed the initialization check has issued
\* exactly one transport request, whether that request is pending, resolved or
\* rejected, and no other call has issued any: the number of requests equals
\* the number of calls that passed the check.
C15_OneRequestPerCall ==
    /\ \A i \in 1..Len(calls) :
           Cardinality(RequestsOf(i)) =
               IF i \in OperationCalls /\ calls[i].initialized THEN 1 ELSE 0
    /\ Len(requests) = Cardinality({i \in OperationCalls : calls[i].initialized})

C15_Witness ==
    /\ Len(calls) = 3
    /\ calls[2].post = "rejected"
    /\ calls[3].post = "resolved"
    /\ calls[3].pc = "returned"
    /\ Len(requests) = 2

\* C18: a transport call that fails (the network call fails or the endpoint
\* answers with a non-success response: the client rejects) or whose response
\* body lacks the expected shape (no data, or no string content field) makes
\* the operation throw; it returns no result.
C18_MalformedBodyFails ==
    \A i \in OperationCalls :
        (\/ calls[i].post = "rejected"
         \/ /\ calls[i].post = "resolved"
            /\ ~(calls[i].data.defined /\ calls[i].data.hasContent)) =>
            calls[i].pc = "threw"

----------------------------------------------------------------------------
(* Properties of the extension under settings changes *)

\* initialization failed during activate
InitFailed == extState = "activated" /\ activation = "failed" /\ ~isInitialized

\* nothing of the extension is registered and no transport call was issued
Inert ==
    /\ registeredCommands = {}
    /\ ~providersRegistered
    /\ ~listenersRegistered
    /\ requests = <<>>

KeyMissing == hostConfig.apiKey = <<>> /\ hostConfig.provider # "local"

\* the part of C13 about the time the key is missing
InertWhileKeyMissing == (InitFailed /\ KeyMissing) => Inert

\* C13: after an activation whose initialization failed, the extension is
\* inert (no command, provider or listener registered, no transport call)
\* while the API key is missing, and it is no longer inert once the key is
\* configured.
C13_InertUntilKeyConfigured ==
    /\ InertWhileKeyMissing
    /\ (InitFailed /\ ~KeyMissing) => ~Inert

\* C19: every request the HTTP variant sends carries 'Bearer ' followed by the
\* API key configured when the request is sent.
C19_BearerIsCurrentKey ==
    [][\A k \in (Len(requests) + 1)..Len(requests') :
           impl = "http" =>
               requests'[k].authorization = <<"Bearer ">> \o hostConfig.apiKey]_vars

\* C20: the provider, model, temperature and maxTokens of every request the
\* HTTP variant sends are those of one complete value the settings have held:
\* no request mixes the fields of two of them, and a request issued while
\* another is in flight and after the settings changed carries the new value
\* whole.
C20_WholeSnapshot ==
    impl = "http" =>
        \A k \in 1..Len(requests) :
            \E h \in 1..Len(hostHistory) :
                /\ requests[k].settings.provider = hostHistory[h].provider
                /\ requests[k].settings.model = hostHistory[h].model
                /\ requests[k].settings.temperature = hostHistory[h].temperature
                /\ requests[k].settings.maxTokens = hostHistory[h].maxTokens

C20_Witness ==
    /\ impl = "http"
    /\ Len(requests) = 2
    /\ Len(hostHistory) = 2
    /\ invs[requests[1].inv].pc = "awaiting-transport"
    /\ requests[1].settings.model # requests[2].settings.model
    /\ requests[2].settings.model = hostConfig.model

----------------------------------------------------------------------------
(* Properties of command invocations in flight *)

\* the invocations that have issued their transport call
IssuedInvocations == {i \in PromptInvocations : invs[i].transport # "none"}

IssuedAnalyze == {i \in IssuedInvocations : invs[i].cmd = "weave.analyzeCode"}

ErrorsOf(i) == {m \in MessagesOf(i) : m.kind = "error"}

\* C16: every analyze-code invocation that got as far as the transport has
\* issued its own request, also when the same selection is analyzed again
\* while an earlier invocation is still suspended; a suspended invocation is
\* left untouched by the others; each invocation whose transport call
\* succeeded has exactly one panel of its own holding its own result, so two
\* successes have two distinct panels.
C16_ConcurrentAnalyzeIndependent ==
    /\ \A i \in IssuedAnalyze :
           /\ Cardinality(RequestsOf(i)) = 1
           /\ invs[i].transport = "pending" =>
                  /\ invs[i].pc = "awaiting-transport"
                  /\ PanelsOf(i) = {}
                  /\ MessagesOf(i) = {}
           /\ invs[i].transport = "ok" =>
                  /\ Cardinality(PanelsOf(i)) = 1
                  /\ \A q \in PanelsOf(i) :
                         q.html = GetWebviewContent("Weave: Code Analysis", invs[i].content)
    /\ Cardinality(UNION {PanelsOf(i) : i \in IssuedAnalyze})
           = Cardinality({i \in IssuedAnalyze : invs[i].transport = "ok"})

C16_Witness ==
    /\ IssuedAnalyze = {1, 2}
    /\ invs[1].editor = invs[2].editor
    /\ invs[1].pc = "awaiting-transport"
    /\ invs[2].transport = "ok"
    /\ invs[2].content # <<>>
    /\ Cardinality(PanelsOf(2)) = 1

\* C17 as stated: an invocation that has issued its transport call and has
\* terminated has exactly one of the two outcomes, a rendered panel or an
\* error message.
C17_ExactlyOneOutcome ==
    \A i \in IssuedInvocations :
        invs[i].pc = "done" => (PanelsOf(i) # {}) # (ErrorsOf(i) # {})

\* C17 amended: an invocation that has issued its transport call is never
\* aborted.  While the call is pending the invocation stays suspended, with
\* no panel and no message, and the settling step is enabled; when the call
\* resolves it renders exactly one panel, when the call rejects it shows
\* exactly one error message and no panel.  Only generate-prompt goes on after
\* its panel (it awaits the answer to its notification) and shows an error in
\* addition when the clipboard copy fails.
C17_RunsToPanelOrError ==
    \A i \in IssuedInvocations :
        /\ invs[i].transport = "pending" =>
               /\ invs[i].pc = "awaiting-transport"
               /\ PanelsOf(i) = {}
               /\ MessagesOf(i) = {}
               /\ ENABLED (TransportResolves /\ invs'[i].transport = "ok")
        /\ invs[i].transport = "ok" =>
               /\ Cardinality(PanelsOf(i)) = 1
               /\ ErrorsOf(i) # {} =>
                      /\ invs[i].cmd = "weave.generatePrompt"
                      /\ invs[i].pc = "done"
                      /\ invs[i].error = ClipboardError
                      /\ Cardinality(ErrorsOf(i)) = 1
        /\ invs[i].transport = "failed" =>
               /\ invs[i].pc = "done"
               /\ PanelsOf(i) = {}
               /\ Cardinality(MessagesOf(i)) = 1
               /\ Cardinality(ErrorsOf(i)) = 1

C17_Witness ==
    /\ extState = "deactivated"
    /\ Len(invs) = 2
    /\ invs[1].cmd = "weave.suggestOptimization"
    /\ invs[1].pc = "awaiting-transport"
    /\ invs[2].cmd = "weave.generatePrompt"
    /\ invs[2].transport = "ok"
    /\ invs[2].error = ClipboardError

----------------------------------------------------------------------------
(* Properties of the settings snapshot and the host store *)

\* the notifications that changed a weave.* setting
WeaveChanges == {k \in 2..Len(hostHistory) : hostHistory[k] # hostHistory[k - 1]}

ListenerMessages == {m \in messages : m.inv = -1}

\* C21: while the configuration listener is registered, the snapshot of the
\* ConfigurationManager equals the host store after every notification that
\* affects 'weave', so it equals the store whenever the store has stopped
\* changing; the listener has handled (reloaded and announced) exactly the
\* notifications that changed a weave.* setting and no other.
C21_SnapshotFollowsStore ==
    /\ listenersRegistered => snapshot = <<hostConfig>>
    /\ activation = "ok" =>
           /\ Cardinality(ListenerMessages) = Cardinality(WeaveChanges)
           /\ \A m \in ListenerMessages : m.text = ConfigUpdatedText

C21_Witness ==
    /\ listenersRegistered
    /\ Len(hostHistory) = 2
    /\ hostHistory[2].model # hostHistory[1].model
    /\ snapshot = <<hostHistory[2]>>
    /\ Cardinality(ListenerMessages) = 1
    /\ \E i \in 1..Len(invs) : invs[i].transport = "ok"

\* the languages for whose documents the host invokes provider p
ServedLanguages(p) == {r.language : r \in {q \in registrations : q.provider = p}}

\* C22: while the providers are registered, the languages the completion and
\* code-lens providers are invoked for are the languages of the languageScope
\* the host store holds now.
C22_ServedLanguagesAreScope ==
    providersRegistered =>
        \A p \in {"completion", "codeLens"} : ServedLanguages(p) = hostConfig.languageScope

\* C27: every step that changes a weave.* setting of the host store is an
\* edit by the user or the update made by setApiKey; the commands, reload and
\* the listeners leave the store as it is.  When setApiKey returns, the
\* snapshot equals the store, so getApiKey returns the key written unless the
\* user has changed the key again in the meantime.
C27_OnlySetApiKeyWrites ==
    [][/\ hostConfig' # hostConfig => ConfigurationChanged \/ SetApiKey
       /\ \A i \in 1..Len(calls) :
              (calls[i].pc = "awaiting-update" /\ calls'[i].pc = "returned") =>
                  /\ snapshot' = <<hostConfig>>
                  /\ hostConfig' = hostConfig
                  /\ hostHistory[Len(hostHistory)].apiKey = calls[i].content =>
                         snapshot'[1].apiKey = calls[i].content]_vars

C27_Witness ==
    /\ Len(calls) = 1
    /\ calls[1].op = "setApiKey"
    /\ calls[1].pc = "returned"
    /\ snapshot[1].apiKey = calls[1].content
    /\ hostConfig.apiKey = calls[1].content
    /\ Len(hostHistory) = 2
    /\ \E i \in 1..Len(invs) : invs[i].cmd = "weave.toggleInlineHints"
    /\ \E i \in 1..Len(invs) : invs[i].cmd = "weave.analyzeCode" /\ invs[i].transport = "ok"

----------------------------------------------------------------------------
(* Properties of the command boundary *)

\* C23: no command handler invocation ends with its promise rejected, and
\* every invocation that met an error has shown an error message.
C23_NoFailureEscapes ==
    \A i \in 1..Len(invs) :
        /\ invs[i].pc # "rejected"
        /\ invs[i].error.isError => ErrorsOf(i) # {}

EditorCommands == PromptCommands \cup {"weave.insertWeaveTemplate"}

\* the invocations of an editor command started with no active editor
NoEditorInvocations ==
    {i \in 1..Len(invs) : invs[i].cmd \in EditorCommands /\ ~invs[i].editor.present}

EditsOfInvocation(i) == {e \in documentEdits : e.inv = i}

\* C24: generate-prompt, analyze-code, suggest-optimization or insert-template
\* started with no active editor has ended, has shown exactly one message, the
\* error 'No active editor', has issued no transport call, opened no panel and
\* edited no document; what the clipboard holds was put there by a
\* generate-prompt invocation that had an editor.
C24_NoEditorAborts ==
    /\ \A i \in NoEditorInvocations :
           /\ invs[i].pc = "done"
           /\ invs[i].transport = "none"
           /\ MessagesOf(i) = {[inv |-> i, n |-> 1, kind |-> "error", text |-> NoEditorText]}
           /\ RequestsOf(i) = {}
           /\ PanelsOf(i) = {}
           /\ EditsOfInvocation(i) = {}
    /\ clipboard # <<>> =>
           \E j \in 1..Len(invs) :
               /\ j \notin NoEditorInvocations
               /\ invs[j].cmd = "weave.generatePrompt"
               /\ invs[j].content = clipboard

C24_Witness ==
    /\ Len(invs) = 2
    /\ NoEditorInvocations = {1, 2}
    /\ invs[1].cmd = "weave.insertWeaveTemplate"
    /\ invs[2].cmd = "weave.suggestOptimization"
    /\ Cardinality(messages) = 2

\* C28: a command captures the active editor once, when it starts: the
\* request it sends is built from that editor, and no later step (a change of
\* the active editor or of the selection, another command, the transport
\* settling) changes a request already sent or the editor an invocation has
\* captured; the panel opened when the transport resolves carries the title of
\* the invocation's own command and the content of its own response.
C28_ContextCapturedOnce ==
    [][/\ \A k \in 1..Len(requests) : requests'[k] = requests[k]
       /\ \A i \in 1..Len(invs) :
              /\ invs'[i].editor = invs[i].editor
              /\ invs'[i].cmd = invs[i].cmd
       /\ \A i \in (Len(invs) + 1)..Len(invs') :
              /\ invs'[i].editor = activeEditor[1]
              /\ \A k \in 1..Len(requests') :
                     requests'[k].inv = i =>
                         /\ requests'[k].codeContext = CodeContextOf(ContextOf(activeEditor[1]))
                         /\ requests'[k].userPrompt =
                                UserPromptOf(OperationOf(invs'[i].cmd), ContextOf(activeEditor[1]))
       /\ \A q \in panels' \ panels :
              /\ invs[q.inv].pc = "awaiting-transport"
              /\ q.html = GetWebviewContent(PanelTitle(invs[q.inv].cmd), invs'[q.inv].content)
              /\ requests[CHOOSE k \in RequestsOf(q.inv) : TRUE].codeContext
                     = CodeContextOf(ContextOf(invs[q.inv].editor))]_vars

C28_Witness ==
    /\ Len(invs) = 2
    /\ invs[1].pc = "awaiting-transport"
    /\ invs[2].transport = "ok"
    /\ invs[1].editor.language # invs[2].editor.language
    /\ Cardinality(PanelsOf(2)) = 1
    /\ activeEditor = <<NoEditor>>
    /\ requests[1].codeContext # requests[2].codeContext

----------------------------------------------------------------------------
(* Properties of the completion provider's entry checks *)

\* C25: a provideCompletionItems call that is entered with cancellation
\* already requested, with a word under the cursor of fewer than three
\* characters, or on a trigger-character event that carries no character,
\* returns null in that same step: it never reaches the assistant and issues
\* no transport call.
C25_SuppressedBeforeAssistant ==
    [][(/\ completion.pc = "not-called"
        /\ completion'.pc # "not-called"
        /\ \/ completionCancelled
           \/ Len(completion.word) < 3
           \/ /\ completion.triggerKind = "TriggerCharacter"
              /\ completion.triggerCharacter = "undefined")
       => /\ completion'.pc = "returned"
          /\ completion'.result = Null
          /\ completion'.transport = "none"
          /\ requests = <<>>
          /\ requests' = <<>>]_vars

C25_Witness ==
    /\ completion.pc = "returned"
    /\ completion.transport = "none"
    /\ completion.triggerKind = "TriggerCharacter"
    /\ completion.triggerCharacter = "undefined"
    /\ Len(completion.word) >= 3
    /\ ~completionCancelled
    /\ isInitialized
    /\ completion.result = Null
    /\ requests = <<>>

----------------------------------------------------------------------------
(* Properties of the result *)

\* C26: the result of generate-prompt and of analyze has kind 'analysis', the
\* result of suggest-optimization 'suggestion', the result of complete
\* 'completion' (generate-documentation: 'analysis'), and its language is the
\* language of the code context passed in, with the mock and with the HTTP
\* variant.
C26_KindAndLanguage ==
    composed.op # "none" =>
        /\ composed.op \in {"generate-prompt", "analyze", "generate-documentation"} =>
               composed.result.type = "analysis"
        /\ composed.op = "suggest-optimization" => composed.result.type = "suggestion"
        /\ composed.op = "complete" => composed.result.type = "completion"
        /\ composed.result.language = ctx.language

C26_Witness ==
    /\ impl = "http"
    /\ composed.op = "complete"
    /\ composed.result.type = "completion"
    /\ ctx.language = <<"p", "y">>
    /\ composed.result.language = <<"p", "y">>
    /\ composed.result.content # <<>>

----------------------------------------------------------------------------
(* Properties of the status bar *)

\* C29: the status bar shows 'Weave Ready' only when initialize has succeeded
\* and the commands, the providers and the event listeners are all registered;
\* after a failed activation it is never Ready and, as long as the item
\* exists, shows the 'Weave Loading...' text of its construction.
C29_ReadyOnlyWhenAllRegistered ==
    /\ statusBarText = "$(check) Weave Ready" =>
           /\ activation = "ok"
           /\ isInitialized
           /\ ~InitializeThrows(snapshot[1])
           /\ registeredCommands = CommandIds
           /\ providersRegistered
           /\ registrations # {}
           /\ listenersRegistered
    /\ activation = "failed" =>
           /\ statusBarText # "$(check) Weave Ready"
           /\ extState = "activated" => statusBarText = "$(loading~spin) Weave Loading..."

C29_Witness ==
    /\ extState = "activated"
    /\ activation = "failed"
    /\ InitializeThrows(snapshot[1])
    /\ ~isInitialized
    /\ statusBarText = "$(loading~spin) Weave Loading..."
    /\ activeEditor # <<>>
    /\ activeEditor[1].present
    /\ hostHistory = <<hostConfig>>

----------------------------------------------------------------------------
(* Properties of dispose against operations in flight *)

\* C30: the initialization check is made only when an operation starts. A call
\* that passed it has issued its one request and, whatever isInitialized has
\* become since, is waiting for the transport (and can still return its
\* result), has returned the result of the resolved request, or has thrown
\* what the transport gave it; a call started while the assistant was not
\* initialized threw 'WeaveAssistant not initialized' and issued no request.
C30_CheckOnlyAtStart ==
    \A i \in OperationCalls :
        /\ calls[i].initialized =>
               /\ Cardinality(RequestsOf(i)) = 1
               /\ calls[i].pc \in {"awaiting-transport", "returned", "threw"}
               /\ calls[i].pc = "awaiting-transport" =>
                      ENABLED (PostResolves /\ calls'[i].pc = "returned")
               /\ calls[i].pc = "returned" =>
                      /\ calls[i].post = "resolved"
                      /\ calls[i].content = ContentOf(calls[i].data)
               /\ calls[i].pc = "threw" =>
                      /\ calls[i].post \in {"resolved", "rejected"}
                      /\ calls[i].error \in TransportErrors \cup {NoDataError}
        /\ ~calls[i].initialized =>
               /\ calls[i].pc = "threw"
               /\ calls[i].post = "none"
               /\ calls[i].error.reason = "WeaveAssistant not initialized"
               /\ RequestsOf(i) = {}

C30_Witness ==
    /\ ~isInitialized
    /\ Len(calls) = 3
    /\ calls[1].op = "initialize"
    /\ calls[2].op = "analyze"
    /\ calls[2].initialized
    /\ calls[2].pc = "awaiting-transport"
    /\ calls[3].op = "analyze"
    /\ ~calls[3].initialized
    /\ calls[3].pc = "threw"
    /\ Len(requests) = 1

====
